---- MODULE Spec2Model ----
(***************************************************************************)
(* A model of the hymo mount controller: the mount command of main.cpp     *)
(* (inventory, storage setup, sync, planning, HymoFS rule emission,        *)
(* OverlayFS execution with fallback, Magic Mount, state save) and the     *)
(* rule resolution of the planner and of the HymoFS emitter.               *)
(*                                                                         *)
(* Specifications: Spec, SpecPersist, SpecTrees and SpecLinks are the      *)
(* mount command over different module directories and staging images;     *)
(* SpecUnmount is SpecTrees followed by a module hot-unmount or delete;    *)
(* SpecResolve is the rule resolution, SpecOverlay one mount_overlay call  *)
(* over child mounts, SpecState a save and a load of the state file in two *)
(* processes, SpecCli one CLI command over a saved state file, SpecMagic   *)
(* the node tree of Magic Mount.                                           *)
(*                                                                         *)
(* A std::string holding a path is a sequence of tokens, "/" or a piece of *)
(* a name, so that one string is a prefix of another exactly when its      *)
(* token sequence is; a name is one token unless a string that ends        *)
(* inside it is compared with it.  An fs::path is the sequence of its      *)
(* components.                                                             *)
(***************************************************************************)
EXTENDS Naturals, Sequences, FiniteSets, TLC

\* ------------------------------------------------------------------ bounds

\* Longest rule list drawn for the rule-resolution specification.
MaxRules == 2

\* e2fsck exit codes drawn: 0 .. MaxExitCode.
MaxExitCode == 4

\* ------------------------------------------------------- strings and paths

Front(s) == SubSeq(s, 1, Len(s) - 1)

Last(s) == s[Len(s)]

\* fs::path::string() of an absolute path: "/" + c1 + "/" + c2 ...
RECURSIVE PathStr(_)
PathStr(p) == IF p = <<>> THEN <<>> ELSE PathStr(Front(p)) \o <<"/", Last(p)>>

\* fs::path(std::string): the components of a path string.
StrToPath(s) == SelectSeq(s, LAMBDA t : t # "/")

\* std::string::substr(1)
Substr1(s) == SubSeq(s, 2, Len(s))

IsPrefix(a, b) == Len(a) <= Len(b) /\ SubSeq(b, 1, Len(a)) = a

\* The test the planner and the emitter write out in full, on strings:
\*   p == t || (p.size() > t.size() && p.compare(0, t.size(), t) == 0 &&
\*              p[t.size()] == '/')
StrCovers(t, p) ==
    \/ p = t
    \/ /\ Len(p) > Len(t)
       /\ SubSeq(p, 1, Len(t)) = t
       /\ p[Len(t) + 1] = "/"

\* ------------------------------------------------------------ the live root

\* The live root filesystem the controller runs on: path -> type.  A symlink
\* carries its target.  /system/vendor is a symlink to /vendor, /system/lib
\* and /oem do not exist.
LiveRoot ==
    {[path |-> <<>>, type |-> "dir", link |-> <<>>],
     [path |-> <<"system">>, type |-> "dir", link |-> <<>>],
     [path |-> <<"system", "etc">>, type |-> "dir", link |-> <<>>],
     [path |-> <<"system", "bin">>, type |-> "dir", link |-> <<>>],
     [path |-> <<"system", "vendor">>, type |-> "lnk", link |-> <<"vendor">>],
     [path |-> <<"vendor">>, type |-> "dir", link |-> <<>>]}

NoPath == <<"<none>">>

LiveEntry(p) == CHOOSE e \in LiveRoot : e.path = p

LiveHas(p) == \E e \in LiveRoot : e.path = p

\* fs::canonical: every symlink on the way resolved; NoPath when the path
\* does not exist.
RECURSIVE Canonical(_)
Canonical(p) ==
    IF p = <<>> THEN <<>>
    ELSE LET parent == Canonical(Front(p))
             q == parent \o <<Last(p)>>
         IN IF parent = NoPath \/ ~LiveHas(q) THEN NoPath
            ELSE IF LiveEntry(q).type = "lnk" THEN Canonical(LiveEntry(q).link)
            ELSE q

\* fs::exists, fs::is_directory (both follow symlinks), fs::is_symlink.
LiveExists(p) == Canonical(p) # NoPath

LiveIsDirectory(p) == LiveExists(p) /\ LiveEntry(Canonical(p)).type = "dir"

LiveIsSymlink(p) ==
    /\ p # <<>>
    /\ Canonical(Front(p)) # NoPath
    /\ LiveHas(Canonical(Front(p)) \o <<Last(p)>>)
    /\ LiveEntry(Canonical(Front(p)) \o <<Last(p)>>).type = "lnk"

\* resolve_path_for_hymofs: canonicalize the nearest existing ancestor of the
\* parent, re-append the missing suffix and the file name unchanged.
RECURSIVE ResolveDir(_)
ResolveDir(curr) ==
    IF curr = <<>> \/ LiveExists(curr)
    THEN (IF LiveExists(curr) THEN Canonical(curr) ELSE curr)
    ELSE ResolveDir(Front(curr)) \o <<Last(curr)>>

resolve_path_for_hymofs(path_str) ==
    LET p == StrToPath(path_str)
    IN IF Len(p) = 0 THEN path_str
       ELSE PathStr(ResolveDir(Front(p)) \o <<Last(p)>>)

\* ------------------------------------------------------- modules and rules

\* defs.hpp: the standard partitions (config.partitions adds none here).
BUILTIN_PARTITIONS == <<"system", "vendor", "product", "system_ext", "odm", "oem">>

\* HymoFSStatus
Statuses == {"Available", "NotPresent", "KernelTooOld", "ModuleTooOld"}

\* The modes a module.prop or module_mode.conf declares.
ModuleModes == {"auto", "hymofs", "overlay", "magic", "none"}

Rule(path, mode) == [path |-> path, mode |-> mode]

\* Module ids in ascending order of std::string comparison.
ModuleIds == <<"A", "B">>

IdIndex(id) == CHOOSE i \in 1..Len(ModuleIds) : ModuleIds[i] = id

\* a.id > b.id, the comparison scan_modules sorts with.
IdGreater(a, b) == IdIndex(a) > IdIndex(b)

Entry(rel, type) == [rel |-> rel, type |-> type]

\* Module trees (the content of <moduledir>/<id>), partition roots included.
TreeHosts ==
    {Entry(<<"system">>, "dir"), Entry(<<"system", "etc">>, "dir"),
     Entry(<<"system", "etc", "hosts">>, "reg")}

TreeVendor == {Entry(<<"vendor">>, "dir"), Entry(<<"vendor", "v">>, "reg")}

TreeSysVendor ==
    {Entry(<<"system">>, "dir"), Entry(<<"system", "vendor">>, "dir"),
     Entry(<<"system", "vendor", "v">>, "reg")}

TreeLib ==
    {Entry(<<"system">>, "dir"), Entry(<<"system", "lib">>, "dir"),
     Entry(<<"system", "lib", "f">>, "reg"),
     Entry(<<"system", "lib", "modules">>, "dir"),
     Entry(<<"system", "lib", "modules", "k">>, "reg")}

TreeEmpty == {Entry(<<"system">>, "dir")}

\* The relative paths of the trees in the order a recursive directory walk
\* lists them (a directory before its entries).
RelOrder ==
    << <<"system">>, <<"system", "bin">>,
       <<"system", "etc">>, <<"system", "etc", "gone">>,
       <<"system", "etc", "hosts">>,
       <<"system", "lib">>, <<"system", "lib", "f">>,
       <<"system", "lib", "gone">>,
       <<"system", "lib", "modules">>, <<"system", "lib", "modules", "k">>,
       <<"system", "vendor">>, <<"system", "vendor", "v">>,
       <<"vendor">>, <<"vendor", "v">> >>

\* The content and hymo_rules.conf a module directory is drawn from.
Fixtures ==
    {[tree |-> TreeHosts, rules |-> <<>>],
     [tree |-> TreeHosts,
      rules |-> <<Rule(PathStr(<<"system", "etc">>), "overlay")>>],
     [tree |-> TreeHosts,
      rules |-> <<Rule(PathStr(<<"system", "etc">>), "hymofs")>>],
     [tree |-> TreeVendor, rules |-> <<>>],
     [tree |-> TreeSysVendor,
      rules |-> <<Rule(PathStr(<<"system", "vendor", "v">>), "hymofs")>>],
     [tree |-> TreeLib,
      rules |-> <<Rule(PathStr(<<"system", "lib">>), "magic"),
                  Rule(PathStr(<<"system", "lib", "modules">>), "hymofs")>>],
     [tree |-> TreeEmpty, rules |-> <<>>]}

\* A module directory as scan_modules finds it: the declared mode, the rules
\* and the content.
ModuleDir == [mode : ModuleModes, fixture : Fixtures]

\* ------------------------------------------------ directory trees on disk

\* A directory tree on disk is a set of [path, type]; path is the full path.
FsEntry(path, type) == [path |-> path, type |-> type]

STAGING == "<staging>"

MODULEDIR == "<moduledir>"

OVERLAY_STAGING == ".overlay_staging"

\* The tree of module id under root, as a set of FsEntry.
TreeAt(root, id, tree) ==
    {FsEntry(<<root, id>> \o e.rel, e.type) : e \in tree} \cup
    {FsEntry(<<root, id>>, "dir")}

FsExists(fsys, p) == \E e \in fsys : e.path = p

FsType(fsys, p) == (CHOOSE e \in fsys : e.path = p).type

\* fs::is_directory follows a symlink.
FsIsDirectory(fsys, p) ==
    FsExists(fsys, p) /\ FsType(fsys, p) \in {"dir", "lnkdir"}

\* The entries strictly below dir.
FsBelow(fsys, dir) ==
    {e \in fsys : Len(e.path) > Len(dir) /\ IsPrefix(dir, e.path)}

\* planner.cpp has_files: an existing directory with at least one entry.
has_files(fsys, path) ==
    /\ FsIsDirectory(fsys, path)
    /\ \E e \in fsys : Len(e.path) = Len(path) + 1 /\ IsPrefix(path, e.path)

\* planner.cpp has_meaningful_content
has_meaningful_content(fsys, base, partitions) ==
    \E i \in 1..Len(partitions) :
        /\ FsExists(fsys, base \o <<partitions[i]>>)
        /\ has_files(fsys, base \o <<partitions[i]>>)

\* utils.cpp has_files_recursive: a regular file or symlink somewhere below.
has_files_recursive(fsys, path) ==
    /\ FsIsDirectory(fsys, path)
    /\ \E e \in FsBelow(fsys, path) :
          e.type \in {"reg", "lnk", "lnkreg", "lnkdir"}

\* fs::recursive_directory_iterator(root): the entries below root, a
\* directory before its entries.
Walk(fsys, base, part) ==
    LET rels == SelectSeq(RelOrder,
                    LAMBDA r : /\ Len(r) > 1
                               /\ r[1] = part
                               /\ FsExists(fsys, base \o r))
    IN [i \in 1..Len(rels) |->
           [path |-> base \o rels[i], rel |-> rels[i],
            type |-> FsType(fsys, base \o rels[i])]]

\* fs::rename(from, to) of a directory: the subtree moves.
FsRename(fsys, from, to) ==
    {e \in fsys : ~IsPrefix(from, e.path)} \cup
    {FsEntry(to \o SubSeq(e.path, Len(from) + 1, Len(e.path)), e.type) :
        e \in {x \in fsys : IsPrefix(from, x.path)}} \cup
    {FsEntry(SubSeq(to, 1, n), "dir") : n \in 1..(Len(to) - 1)}

\* --------------------------------------------------------- directory entries
\*
\* The type of an entry on disk: "dir", "reg", "chr0" (a character device
\* with device number 0), and three kinds of symlink, by what the link
\* resolves to: "lnkdir" a directory, "lnkreg" a regular file, "lnk" nothing
\* of the two (a dangling link).

SymlinkTypes == {"lnk", "lnkreg", "lnkdir"}

\* std::filesystem::directory_entry::is_directory and is_regular_file (both
\* follow a symlink), is_symlink, and the whiteout test (a character device
\* 0:0).
\* As IsDirectoryEntry with no entry taken for a directory.
IsDirectoryEntryNever(e) == FALSE

IsDirectoryEntry(e) == e.type \in {"dir", "lnkdir"}

IsRegularFileEntry(e) == e.type \in {"reg", "lnkreg"}

IsSymlinkEntry(e) == e.type \in SymlinkTypes

\* As IsWhiteoutEntry with the device number never found to be 0.
IsWhiteoutEntryNever(e) == FALSE

IsWhiteoutEntry(e) == e.type = "chr0"

\* As DT_TYPE with the type of a regular file left unknown.
DT_TYPE_Unknown(e) == IF IsSymlinkEntry(e) THEN "DT_LNK" ELSE "DT_UNKNOWN"

\* dirent.h
DT_TYPE(e) ==
    IF IsRegularFileEntry(e) THEN "DT_REG"
    ELSE IF IsSymlinkEntry(e) THEN "DT_LNK"
    ELSE "DT_UNKNOWN"

\* ---------------------------------------------------------- rule resolution

\* generate_plan, lines 179-194: the loop over module.rules; the result is
\* <<mode, max_len, rule_found>>.
RECURSIVE PlannerResolveFrom(_, _, _, _)
PlannerResolveFrom(rules, i, path_str, acc) ==
    IF i > Len(rules) THEN acc
    ELSE LET rule == rules[i]
             hit == /\ StrCovers(rule.path, path_str)
                    /\ Len(rule.path) > acc.max_len
         IN PlannerResolveFrom(rules, i + 1, path_str,
                IF hit
                THEN [mode |-> rule.mode, max_len |-> Len(rule.path),
                      rule_found |-> TRUE]
                ELSE acc)

\* As PlannerResolveFrom with >= for >: the last of the longest rules wins.
PlannerResolveLastWins(rules, path_str, default_mode) ==
    LET RECURSIVE Go(_, _)
        Go(i, acc) ==
            IF i > Len(rules) THEN acc
            ELSE Go(i + 1,
                    IF /\ StrCovers(rules[i].path, path_str)
                       /\ Len(rules[i].path) >= acc.max_len
                    THEN [mode |-> rules[i].mode, max_len |-> Len(rules[i].path),
                          rule_found |-> TRUE]
                    ELSE acc)
    IN Go(1, [mode |-> default_mode, max_len |-> 0, rule_found |-> FALSE])

PlannerResolve(rules, path_str, default_mode) ==
    PlannerResolveFrom(rules, 1, path_str,
        [mode |-> default_mode, max_len |-> 0, rule_found |-> FALSE])

\* update_hymofs_mappings, lines 377-390: the same loop, without rule_found;
\* the result is <<mode, max_len>>.
RECURSIVE EmitterResolveFrom(_, _, _, _)
EmitterResolveFrom(rules, i, path_str, acc) ==
    IF i > Len(rules) THEN acc
    ELSE LET rule == rules[i]
             hit == /\ StrCovers(rule.path, path_str)
                    /\ Len(rule.path) > acc.max_len
         IN EmitterResolveFrom(rules, i + 1, path_str,
                IF hit
                THEN [mode |-> rule.mode, max_len |-> Len(rule.path)]
                ELSE acc)

EmitterResolve(rules, path_str, default_mode) ==
    EmitterResolveFrom(rules, 1, path_str,
        [mode |-> default_mode, max_len |-> 0])

\* As UseHymofs without the forced case: a protocol mismatch is never usable.
UseHymofsAvailableOnly(st, ignore) == st = "Available"

\* generate_plan, lines 114-117
UseHymofs(st, ignore) ==
    \/ st = "Available"
    \/ ignore /\ st \in {"KernelTooOld", "ModuleTooOld"}

\* HymoFS::is_available
is_available(st) == st = "Available"

\* generate_plan, lines 128-130
PlannerDefaultMode(mode, use_hymofs) ==
    IF mode = "auto" THEN (IF use_hymofs THEN "hymofs" ELSE "overlay") ELSE mode

\* update_hymofs_mappings, lines 359-361
EmitterDefaultMode(mode) == IF mode = "auto" THEN "hymofs" ELSE mode

\* ------------------------------------------------------------ generate_plan

Range(s) == {s[i] : i \in 1..Len(s)}

\* The keys of std::map overlay_layers in the order the map iterates them
\* (ascending std::string order).
KeyOrder ==
    <<PathStr(<<"odm">>), PathStr(<<"oem">>), PathStr(<<"product">>),
      PathStr(<<"system">>), PathStr(<<"system", "etc">>),
      PathStr(<<"system", "etc", "hosts">>), PathStr(<<"system", "lib">>),
      PathStr(<<"system", "lib", "f">>), PathStr(<<"system", "lib", "modules">>),
      PathStr(<<"system", "lib", "modules", "k">>),
      PathStr(<<"system", "vendor">>), PathStr(<<"system", "vendor", "v">>),
      PathStr(<<"system_ext">>), PathStr(<<"vendor">>),
      PathStr(<<"vendor", "v">>)>>

\* The locals of generate_plan, lines 101-106.
PlanLocals ==
    [overlay_layers |-> [k \in Range(KeyOrder) |-> <<>>],
     magic_paths |-> {}, overlay_ids |-> {}, magic_ids |-> {},
     hymofs_module_ids |-> <<>>]

\* generate_plan, lines 134-163: a module without rules.
PlanModuleWithoutRules(acc, fsys, module, default_mode, use_hymofs) ==
    LET content_path == <<STAGING, module.id>>
        force_overlay == default_mode = "overlay"
        parts == {BUILTIN_PARTITIONS[i] : i \in
                     {j \in 1..Len(BUILTIN_PARTITIONS) :
                         /\ FsIsDirectory(fsys, content_path \o <<BUILTIN_PARTITIONS[j]>>)
                         /\ has_files(fsys, content_path \o <<BUILTIN_PARTITIONS[j]>>)}}
    IN IF default_mode = "none" THEN acc
       ELSE IF default_mode = "magic"
       THEN [acc EXCEPT !.magic_paths = @ \cup {content_path},
                        !.magic_ids = @ \cup {module.id}]
       ELSE IF use_hymofs /\ ~force_overlay
       THEN [acc EXCEPT !.hymofs_module_ids = Append(@, module.id)]
       ELSE [acc EXCEPT
                !.overlay_layers =
                    [k \in DOMAIN @ |->
                        IF \E part \in parts : k = PathStr(<<part>>)
                        THEN Append(@[k], content_path \o StrToPath(k))
                        ELSE @[k]],
                !.overlay_ids = IF parts # {} THEN @ \cup {module.id} ELSE @]

\* generate_plan, lines 176-237: one entry of a module with rules.  m holds
\* overlay_layers, magic_paths and the three *_active flags.
PlanEntry(m, module, default_mode, part, entry) ==
    LET content_path == <<STAGING, module.id>>
        part_root == content_path \o <<part>>
        path_str == PathStr(entry.rel)
        res == PlannerResolve(module.rules, path_str, default_mode)
        mode == res.mode
        exact(md) == \E i \in 1..Len(module.rules) :
                        module.rules[i].path = path_str /\ module.rules[i].mode = md
        m1 == IF ~IsDirectoryEntry(entry) THEN m
              ELSE IF mode = "overlay"
              THEN (IF exact("overlay")
                    THEN [m EXCEPT !.overlay_layers[path_str] = Append(@, entry.path),
                                   !.overlay_active = TRUE]
                    ELSE IF ~res.rule_found /\ default_mode = "overlay"
                            /\ entry.path = part_root
                    THEN [m EXCEPT !.overlay_layers[PathStr(<<part>>)] =
                                       Append(@, entry.path),
                                   !.overlay_active = TRUE]
                    ELSE m)
              ELSE IF mode = "magic"
              THEN (IF exact("magic")
                    THEN [m EXCEPT !.magic_paths = @ \cup {entry.path},
                                   !.magic_active = TRUE]
                    ELSE m)
              ELSE m
    IN IF mode = "none" THEN m
       ELSE IF mode = "hymofs" THEN [m1 EXCEPT !.hymofs_active = TRUE]
       ELSE m1

RECURSIVE PlanEntries(_, _, _, _, _, _)
PlanEntries(m, module, default_mode, part, entries, i) ==
    IF i > Len(entries) THEN m
    ELSE PlanEntries(PlanEntry(m, module, default_mode, part, entries[i]),
                     module, default_mode, part, entries, i + 1)

RECURSIVE PlanPartitions(_, _, _, _, _)
PlanPartitions(m, fsys, module, default_mode, p) ==
    IF p > Len(BUILTIN_PARTITIONS) THEN m
    ELSE LET part == BUILTIN_PARTITIONS[p]
             part_root == <<STAGING, module.id, part>>
         IN PlanPartitions(
                IF ~FsExists(fsys, part_root) THEN m
                ELSE PlanEntries(m, module, default_mode, part,
                                 Walk(fsys, <<STAGING, module.id>>, part), 1),
                fsys, module, default_mode, p + 1)

\* generate_plan, lines 164-263: a module with rules.
PlanModuleWithRules(acc, fsys, module, default_mode) ==
    LET content_path == <<STAGING, module.id>>
        m == PlanPartitions(
                 [overlay_layers |-> acc.overlay_layers,
                  magic_paths |-> acc.magic_paths,
                  hymofs_active |-> FALSE, overlay_active |-> FALSE,
                  magic_active |-> FALSE],
                 fsys, module, default_mode, 1)
        root_magic == default_mode = "magic" /\ ~m.magic_active
    IN [overlay_layers |-> m.overlay_layers,
        magic_paths |-> IF root_magic THEN m.magic_paths \cup {content_path}
                        ELSE m.magic_paths,
        magic_ids |-> IF root_magic THEN acc.magic_ids \cup {module.id}
                      ELSE acc.magic_ids,
        hymofs_module_ids |-> IF m.hymofs_active
                              THEN Append(acc.hymofs_module_ids, module.id)
                              ELSE acc.hymofs_module_ids,
        overlay_ids |-> IF m.overlay_active THEN acc.overlay_ids \cup {module.id}
                        ELSE acc.overlay_ids]

\* generate_plan, lines 119-264: the loop over the modules.
RECURSIVE PlanModules(_, _, _, _, _)
PlanModules(acc, fsys, modules, use_hymofs, i) ==
    IF i > Len(modules) THEN acc
    ELSE LET module == modules[i]
             content_path == <<STAGING, module.id>>
             default_mode == PlannerDefaultMode(module.mode, use_hymofs)
             skip == \/ ~FsExists(fsys, content_path)
                     \/ ~has_meaningful_content(fsys, content_path,
                                                BUILTIN_PARTITIONS)
         IN PlanModules(
                IF skip THEN acc
                ELSE IF module.rules = <<>>
                THEN PlanModuleWithoutRules(acc, fsys, module, default_mode,
                                            use_hymofs)
                ELSE PlanModuleWithRules(acc, fsys, module, default_mode),
                fsys, modules, use_hymofs, i + 1)

\* generate_plan, lines 271-282: the target of an overlay operation.
OverlayTarget(key) ==
    LET target_path == StrToPath(key)
    IN IF LiveIsSymlink(target_path)
       THEN LET link == LiveEntry(Canonical(Front(target_path))
                                  \o <<Last(target_path)>>).link
            IN IF Canonical(link) # NoPath THEN Canonical(link) ELSE link
       ELSE target_path

\* generate_plan, lines 266-289
RECURSIVE OverlayOps(_, _)
OverlayOps(overlay_layers, k) ==
    IF k > Len(KeyOrder) THEN <<>>
    ELSE LET layers == overlay_layers[KeyOrder[k]]
             target_path == OverlayTarget(KeyOrder[k])
             rest == OverlayOps(overlay_layers, k + 1)
         IN IF layers = <<>> THEN rest
            ELSE IF ~LiveExists(target_path) \/ ~LiveIsDirectory(target_path)
            THEN rest
            ELSE <<[target |-> PathStr(target_path), lowerdirs |-> layers]>>
                 \o rest

generate_plan(st, ignore, modules, fsys) ==
    LET acc == PlanModules(PlanLocals, fsys, modules, UseHymofs(st, ignore), 1)
    IN [overlay_ops |-> OverlayOps(acc.overlay_layers, 1),
        magic_module_paths |-> acc.magic_paths,
        overlay_module_ids |-> acc.overlay_ids,
        magic_module_ids |-> acc.magic_ids,
        hymofs_module_ids |-> acc.hymofs_module_ids]

\* --------------------------------------------------- segregate_custom_rules

\* main.cpp, lines 118-142: one layer.  s holds the staging tree and the
\* layers of the operation rewritten so far.
SegregateLayer(s, layer) ==
    LET rel == SubSeq(layer, 2, Len(layer))
        target == <<STAGING, OVERLAY_STAGING>> \o rel
        inside == Len(layer) >= 1 /\ layer[1] = STAGING
        moved == inside /\ FsExists(s.fsys, layer) /\ ~FsExists(s.fsys, target)
    IN IF moved
       THEN [fsys |-> FsRename(s.fsys, layer, target),
             layers |-> Append(s.layers, target)]
       ELSE [fsys |-> s.fsys, layers |-> Append(s.layers, layer)]

RECURSIVE SegregateLayers(_, _, _)
SegregateLayers(s, lowerdirs, i) ==
    IF i > Len(lowerdirs) THEN s
    ELSE SegregateLayers(SegregateLayer(s, lowerdirs[i]), lowerdirs, i + 1)

\* main.cpp, lines 112-148: the result is <<staging tree, overlay_ops>>.
RECURSIVE SegregateOps(_, _, _, _)
SegregateOps(fsys, ops, i, done) ==
    IF i > Len(ops) THEN [fsys |-> fsys, overlay_ops |-> done]
    ELSE LET s == SegregateLayers([fsys |-> fsys, layers |-> <<>>],
                                  ops[i].lowerdirs, 1)
         IN SegregateOps(s.fsys, ops, i + 1,
                Append(done, [target |-> ops[i].target, lowerdirs |-> s.layers]))

segregate_custom_rules(fsys, overlay_ops) == SegregateOps(fsys, overlay_ops, 1, <<>>)

\* --------------------------------------------------- update_hymofs_mappings

IsListed(ids, id) == \E i \in 1..Len(ids) : ids[i] = id

\* update_hymofs_mappings, lines 322-339: the hide rules of the rule files.
RECURSIVE ExplicitHides(_, _, _)
ExplicitHides(modules, hymofs_ids, i) ==
    IF i > Len(modules) THEN <<>>
    ELSE (IF IsListed(hymofs_ids, modules[i].id)
          THEN LET hides == SelectSeq(modules[i].rules,
                                      LAMBDA r : r.mode = "hide")
               IN [j \in 1..Len(hides) |-> resolve_path_for_hymofs(hides[j].path)]
          ELSE <<>>) \o ExplicitHides(modules, hymofs_ids, i + 1)

\* update_hymofs_mappings, lines 397-427: the first overlay operation whose
\* target covers p_str, 0 when there is none.
CoveringOp(ops, p_str) ==
    IF \E k \in 1..Len(ops) : StrCovers(ops[k].target, p_str)
    THEN CHOOSE k \in 1..Len(ops) :
             /\ StrCovers(ops[k].target, p_str)
             /\ \A j \in 1..(k - 1) : ~StrCovers(ops[j].target, p_str)
    ELSE 0

\* update_hymofs_mappings, lines 411-424: the module's directory for the
\* target is added to the operation's layers.
AddCoveredLayer(op, fsys, mod_path) ==
    LET layer_path == mod_path \o StrToPath(Substr1(op.target))
        exists == \E i \in 1..Len(op.lowerdirs) : op.lowerdirs[i] = layer_path
    IN IF Len(op.target) > 1 /\ ~exists /\ FsExists(fsys, layer_path)
       THEN [op EXCEPT !.lowerdirs = Append(@, layer_path)]
       ELSE op

\* update_hymofs_mappings, lines 372-485: one entry of the walk.  a holds the
\* overlay operations, the three rule lists and the directory whose entries
\* the walk does not enter (disable_recursion_pending).
EmitEntry(a, fsys, module, default_mode, entry) ==
    LET mod_path == <<STAGING, module.id>>
        virtual_path == entry.rel
        path_str == PathStr(virtual_path)
        mode == EmitterResolve(module.rules, path_str, default_mode).mode
        k == CoveringOp(a.overlay_ops, path_str)
        final_virtual_path == resolve_path_for_hymofs(path_str)
    IN IF a.pruned # NoPath /\ IsPrefix(a.pruned, entry.path) THEN a
       ELSE IF mode # "hymofs" /\ mode # "auto" THEN a
       ELSE IF k # 0
       THEN [a EXCEPT !.overlay_ops[k] = AddCoveredLayer(@, fsys, mod_path)]
       ELSE IF /\ IsDirectoryEntry(entry)
               /\ LiveExists(StrToPath(final_virtual_path))
               /\ LiveIsDirectory(StrToPath(final_virtual_path))
       THEN [a EXCEPT !.merge_rules =
                          Append(@, [src |-> final_virtual_path,
                                     target |-> entry.path, type |-> "DT_DIR"]),
                      !.pruned = entry.path]
       ELSE IF IsRegularFileEntry(entry) \/ IsSymlinkEntry(entry)
       THEN (IF /\ IsSymlinkEntry(entry)
                /\ LiveExists(virtual_path)
                /\ LiveIsDirectory(virtual_path)
             THEN a
             ELSE [a EXCEPT !.add_rules =
                                Append(@, [src |-> final_virtual_path,
                                           target |-> entry.path,
                                           type |-> DT_TYPE(entry)])])
       ELSE IF IsWhiteoutEntry(entry)
       THEN [a EXCEPT !.hide_rules = Append(@, final_virtual_path)]
       ELSE a

RECURSIVE EmitEntries(_, _, _, _, _, _)
EmitEntries(a, fsys, module, default_mode, entries, i) ==
    IF i > Len(entries) THEN a
    ELSE EmitEntries(EmitEntry(a, fsys, module, default_mode, entries[i]),
                     fsys, module, default_mode, entries, i + 1)

RECURSIVE EmitPartitions(_, _, _, _, _)
EmitPartitions(a, fsys, module, default_mode, p) ==
    IF p > Len(BUILTIN_PARTITIONS) THEN a
    ELSE LET part_root == <<STAGING, module.id, BUILTIN_PARTITIONS[p]>>
         IN EmitPartitions(
                IF ~FsExists(fsys, part_root) THEN a
                ELSE [EmitEntries(a, fsys, module, default_mode,
                                  Walk(fsys, <<STAGING, module.id>>,
                                       BUILTIN_PARTITIONS[p]), 1)
                      EXCEPT !.pruned = NoPath],
                fsys, module, default_mode, p + 1)

\* update_hymofs_mappings, lines 343-492: the modules from the last of the
\* inventory to the first.
RECURSIVE EmitModules(_, _, _, _)
EmitModules(a, fsys, modules, i) ==
    IF i < 1 THEN a
    ELSE EmitModules(
             IF ~IsListed(a.hymofs_module_ids, modules[i].id) THEN a
             ELSE EmitPartitions(a, fsys, modules[i],
                                 EmitterDefaultMode(modules[i].mode), 1),
             fsys, modules, i - 1)

\* update_hymofs_mappings, lines 313-492: the rule lists it builds and the
\* overlay operations as it leaves them.
CollectRules(modules, fsys, p) ==
    EmitModules(
        [overlay_ops |-> p.overlay_ops,
         hymofs_module_ids |-> p.hymofs_module_ids,
         add_rules |-> <<>>, merge_rules |-> <<>>,
         hide_rules |-> ExplicitHides(modules, p.hymofs_module_ids, 1),
         pruned |-> NoPath],
        fsys, modules, Len(modules))

\* As RuleCalls with the merge rules issued before the add rules.
RuleCallsMergesFirst(c) ==
    [i \in 1..Len(c.merge_rules) |->
        [op |-> "add_merge_rule", src |-> c.merge_rules[i].src,
         target |-> c.merge_rules[i].target, type |-> "DT_DIR"]] \o
    [i \in 1..Len(c.add_rules) |->
        [op |-> "add_rule", src |-> c.add_rules[i].src,
         target |-> c.add_rules[i].target, type |-> c.add_rules[i].type]] \o
    [i \in 1..Len(c.hide_rules) |->
        [op |-> "hide_path", src |-> c.hide_rules[i], target |-> <<>>,
         type |-> "DT_UNKNOWN"]]

\* The kernel calls of lines 494-503, in the order they are issued.
RuleCalls(c) ==
    [i \in 1..Len(c.add_rules) |->
        [op |-> "add_rule", src |-> c.add_rules[i].src,
         target |-> c.add_rules[i].target, type |-> c.add_rules[i].type]] \o
    [i \in 1..Len(c.merge_rules) |->
        [op |-> "add_merge_rule", src |-> c.merge_rules[i].src,
         target |-> c.merge_rules[i].target, type |-> "DT_DIR"]] \o
    [i \in 1..Len(c.hide_rules) |->
        [op |-> "hide_path", src |-> c.hide_rules[i], target |-> <<>>,
         type |-> "DT_UNKNOWN"]]

ClearCall == [op |-> "clear_rules", src |-> <<>>, target |-> <<>>, type |-> "DT_UNKNOWN"]

\* The kernel rule table after a call: CLEAR_ALL drops every rule, DEL_RULE
\* drops the rule of its src, the other opcodes set the rule of their src.
KernelApply(table, call) ==
    IF call.op = "clear_rules" THEN {}
    ELSE IF call.op = "delete_rule" THEN {r \in table : r.src # call.src}
    ELSE {r \in table : r.src # call.src} \cup {call}

RECURSIVE KernelApplyAll(_, _, _)
KernelApplyAll(table, calls, i) ==
    IF i > Len(calls) THEN table
    ELSE KernelApplyAll(KernelApply(table, calls[i]), calls, i + 1)

\* ------------------------------------------------------------ scan_modules

\* The directory tree below <moduledir>.
SourceTree(dirs) ==
    UNION {TreeAt(MODULEDIR, id, dirs[id].fixture.tree) : id \in DOMAIN dirs}

\* inventory.cpp, lines 125-127: ids in descending order.
RECURSIVE SortDescending(_)
SortDescending(ids) ==
    IF ids = {} THEN <<>>
    ELSE LET top == CHOOSE a \in ids : \A b \in ids \ {a} : IdGreater(a, b)
         IN <<top>> \o SortDescending(ids \ {top})

\* inventory.cpp, lines 70-134
scan_modules(dirs) ==
    LET ids == SortDescending(DOMAIN dirs)
    IN [i \in 1..Len(ids) |->
           [id |-> ids[i], source_path |-> <<MODULEDIR, ids[i]>>,
            mode |-> dirs[ids[i]].mode, rules |-> dirs[ids[i]].fixture.rules]]

\* main.cpp, lines 1292-1305, and sync.cpp has_content
HasContent(fsys, module) ==
    \E i \in 1..Len(BUILTIN_PARTITIONS) :
        has_files_recursive(fsys, module.source_path \o <<BUILTIN_PARTITIONS[i]>>)

\* utils.cpp sync_dir(src, dst) with native_cp_r: dst is created if missing
\* and every entry of src is copied over it; what dst held at other paths
\* stays.  native_cp_r tests fs::is_directory(entry), which follows a
\* symlink: a link that resolves to a directory is copied as a directory
\* (here: one that holds nothing) where the destination has no entry, and
\* is copied into the entry the destination has otherwise.
sync_dir(fsys, dirs, id) ==
    LET src == TreeAt(STAGING, id, dirs[id].fixture.tree)
        copy == {IF c.type # "lnkdir" THEN c
                 ELSE IF FsExists(fsys, c.path)
                 THEN FsEntry(c.path, FsType(fsys, c.path))
                 ELSE FsEntry(c.path, "dir") : c \in src}
    IN {e \in fsys : ~\E c \in copy : c.path = e.path} \cup copy

\* sync.cpp should_sync: a destination that exists is synced again unless
\* both module.prop files exist and hold the same bytes; same_prop holds the
\* modules for which they do.
should_sync(fsys, dst, id, same_prop) ==
    \/ ~FsExists(fsys, dst)
    \/ id \notin same_prop

\* sync.cpp prune_orphaned_modules
prune_orphaned_modules(fsys, modules) ==
    {e \in fsys :
        \/ Len(e.path) < 2
        \/ e.path[2] \in {"lost+found", "hymo"}
        \/ \E i \in 1..Len(modules) : modules[i].id = e.path[2]}

\* sync.cpp perform_sync, lines 165-196: a module without content is passed
\* over, an up-to-date one too; any other destination is removed and copied
\* again.  failed holds the modules whose sync_dir fails, which leaves the
\* created directory behind.
RECURSIVE SyncModules(_, _, _, _, _, _)
SyncModules(fsys, dirs, modules, failed, same_prop, i) ==
    IF i > Len(modules) THEN fsys
    ELSE LET module == modules[i]
             dst == <<STAGING, module.id>>
             cleaned == {e \in fsys : ~IsPrefix(dst, e.path)}
         IN SyncModules(
                IF ~HasContent(SourceTree(dirs), module) THEN fsys
                ELSE IF ~should_sync(fsys, dst, module.id, same_prop) THEN fsys
                ELSE IF module.id \in failed
                THEN cleaned \cup {FsEntry(dst, "dir")}
                ELSE sync_dir(cleaned, dirs, module.id),
                dirs, modules, failed, same_prop, i + 1)

perform_sync(fsys, dirs, modules, failed, same_prop) ==
    SyncModules(prune_orphaned_modules(fsys, modules), dirs, modules, failed,
                same_prop, 1)

\* ------------------------------------------------------------ execute_plan

\* executor.cpp extract_module_root
extract_module_root(partition_path) ==
    IF Len(partition_path) > 1 THEN Front(partition_path) ELSE <<>>

\* executor.cpp extract_id
extract_id(path) ==
    IF Len(path) > 1 THEN Last(Front(path)) ELSE ""

\* overlay.cpp get_mirror_path, on strings: every '/' of the target becomes
\* '_' and the result is one name below /dev/hymo_mirror.
MirrorPath(target_root) ==
    PathStr(<<"dev", "hymo_mirror">>) \o <<"/">> \o
    [i \in 1..Len(target_root) |->
        IF target_root[i] = "/" THEN "_" ELSE target_root[i]]

\* overlay.cpp mount_overlay, lines 360-366: the lowerdir option.
LowerdirConfig(target_root, module_roots) ==
    module_roots \o <<MirrorPath(target_root)>>

\* executor.cpp, lines 56-65: the fallback of one failed operation.
RECURSIVE FallbackLayers(_, _, _)
FallbackLayers(q, lowerdirs, i) ==
    IF i > Len(lowerdirs) THEN q
    ELSE LET root == extract_module_root(lowerdirs[i])
             id == extract_id(lowerdirs[i])
         IN FallbackLayers(
                IF root = <<>> THEN q
                ELSE [magic_queue |-> Append(q.magic_queue, root),
                      fallback_ids |-> IF id # "" THEN Append(q.fallback_ids, id)
                                       ELSE q.fallback_ids],
                lowerdirs, i + 1)

\* std::sort on a vector of paths, as far as the model needs it: equal paths
\* end up next to each other.
RECURSIVE SortGrouped(_, _, _)
SortGrouped(order, q, i) ==
    IF i > Len(order) THEN <<>>
    ELSE SelectSeq(q, LAMBDA x : x = order[i]) \o SortGrouped(order, q, i + 1)

\* As std_unique with every element kept.
std_unique_keeps_all(s) == s

\* std::unique with erase: of neighbours that are equal only the first stays.
RECURSIVE std_unique(_)
std_unique(s) ==
    IF Len(s) <= 1 THEN s
    ELSE IF s[Len(s)] = s[Len(s) - 1] THEN std_unique(Front(s))
    ELSE Append(std_unique(Front(s)), Last(s))

\* executor.cpp, lines 95-99
FinalMagicIds(queue) == {Last(p) : p \in {q \in queue : Len(q) > 0}}

\* ------------------------------------------------------------------- state

VARIABLES
    pc,              \* the position in main's mount command
    status,          \* what HymoFS::check_status returns (cached)
    ignore_protocol_mismatch,   \* config.ignore_protocol_mismatch
    moduledir,       \* the module directories under config.moduledir
    can_use_hymofs,  \* main's local: the HymoFS fast path is taken
    module_list,     \* main's module_list
    storage,         \* main's StorageHandle
    st,              \* the locals of the running setup_storage call
    staging,         \* the directory tree below the staging root (before
                     \* the storage is set up: the tree inside modules.img)
    plan,            \* main's MountPlan
    kernel_rules,    \* the rule table of the kernel
    kernel_calls,    \* the kernel calls of this run, in order
    phases,          \* the phases of this run, in the order they started
    ex,              \* the locals of the running execute_plan call
    mounts,          \* what this run mounted
    exec_result,     \* main's ExecutionResult
    state_file,      \* the runtime state file
    rr,              \* the rule-resolution specification: one request
    mo,              \* the mount_overlay specification: one call
    rs,              \* the state file specification: a save and a load;
                     \* the CLI command that ran after the mount command
    mm               \* the magic mount tree specification: one call of
                     \* collect_all_modules

vars ==
    <<pc, status, ignore_protocol_mismatch, moduledir, can_use_hymofs,
      module_list, storage, st, staging, plan, kernel_rules, kernel_calls,
      phases, ex, mounts, exec_result, state_file, rr, mo, rs, mm>>

EmptyPlan ==
    [overlay_ops |-> <<>>, magic_module_paths |-> {}, overlay_module_ids |-> {},
     magic_module_ids |-> {}, hymofs_module_ids |-> <<>>]

NoStorage == [mode |-> "", mount_point |-> <<>>]

NoFsck == [ran |-> FALSE, exited |-> FALSE, code |-> 0]

IdleSt == [force_ext4 |-> FALSE, mount_attempts |-> 0, fsck |-> NoFsck,
           result |-> "none"]

IdleEx == [next |-> 1, magic_queue |-> <<>>, fallback_ids |-> <<>>]

NoMounts == [overlays |-> <<>>, attempted |-> <<>>, magic |-> <<>>]

NoResult == [overlay_module_ids |-> {}, magic_module_ids |-> {}]

NoState ==
    [saved |-> FALSE, storage_mode |-> "", mount_point |-> <<>>,
     overlay_module_ids |-> {}, magic_module_ids |-> {},
     hymofs_module_ids |-> <<>>, hymofs_mismatch |-> FALSE]

IdleRr == [phase |-> "off"]

\* No mount_overlay call is modelled on its own.
IdleMo ==
    [phase |-> "idle", fsys |-> {}, target_root |-> <<>>, module_roots |-> <<>>,
     mountinfo |-> <<>>, mount_seq |-> <<>>, lowerdir |-> <<>>,
     restored |-> <<>>, result |-> FALSE]

\* No save and no load of the state file is modelled on its own.
IdleRs == [writer |-> "off", reader |-> "off"]

\* No collect_all_modules call is modelled on its own.
IdleMm == [phase |-> "off"]

\* A rule an earlier run left in the kernel table.
StaleRule ==
    [op |-> "add_rule", src |-> PathStr(<<"system", "old">>),
     target |-> <<STAGING, "OLD", "system", "old">>, type |-> "DT_REG"]

Init ==
    /\ pc = "start"
    /\ status \in Statuses
    /\ ignore_protocol_mismatch \in BOOLEAN
    /\ moduledir \in [Range(ModuleIds) -> ModuleDir]
    /\ can_use_hymofs = FALSE
    /\ module_list = <<>>
    /\ storage = NoStorage
    /\ st = IdleSt
    /\ staging = {}
    /\ plan = EmptyPlan
    /\ kernel_rules = {StaleRule}
    /\ kernel_calls = <<>>
    /\ phases = <<>>
    /\ ex = IdleEx
    /\ mounts = NoMounts
    /\ exec_result = NoResult
    /\ state_file = NoState
    /\ mo = IdleMo
    /\ rs = IdleRs
    /\ mm = IdleMm
    /\ rr = IdleRr

\* ----------------------------------------------------------- main: mount

\* main.cpp, lines 1184-1232: the strategy is chosen; the fast path sets the
\* kernel's enabled flag first.
Start ==
    /\ pc = "start"
    /\ can_use_hymofs' = (\/ status = "Available"
                          \/ /\ ignore_protocol_mismatch
                             /\ status \in {"KernelTooOld", "ModuleTooOld"})
    /\ IF can_use_hymofs'
       THEN /\ kernel_calls' = Append(kernel_calls,
                 [op |-> "set_enabled", src |-> <<>>, target |-> <<>>,
                  type |-> "DT_UNKNOWN"])
            /\ pc' = "scan"
       ELSE /\ kernel_calls' = kernel_calls
            /\ pc' = "storage"
    /\ UNCHANGED <<status, ignore_protocol_mismatch, moduledir, module_list,
                   storage, st, staging, plan, kernel_rules, phases, ex,
                   mounts, exec_result, state_file, rr, mo, rs, mm>>

\* main.cpp, lines 1283-1307 (fast path: the modules with content) and
\* line 1487 (legacy path).
ScanModules ==
    /\ pc = "scan"
    /\ phases' = Append(phases, "Inventory")
    /\ IF can_use_hymofs
       THEN /\ module_list' = SelectSeq(scan_modules(moduledir),
                                  LAMBDA m : HasContent(SourceTree(moduledir), m))
            /\ pc' = "storage"
       ELSE /\ module_list' = scan_modules(moduledir)
            /\ pc' = "sync"
    /\ UNCHANGED <<status, ignore_protocol_mismatch, moduledir, can_use_hymofs,
                   storage, st, staging, plan, kernel_rules, kernel_calls, ex,
                   mounts, exec_result, state_file, rr, mo, rs, mm>>

\* What system("e2fsck ...") returns: a normal exit with a code, or not.
FsckResults ==
    [ran : {TRUE}, exited : {TRUE}, code : 0..MaxExitCode] \cup
    {[ran |-> TRUE, exited |-> FALSE, code |-> 0]}

\* As repair_image with every exit code below 8 (no operational error)
\* taken as repaired.
repair_image_lenient(ret) == ret.exited /\ ret.code < 8

\* utils.cpp repair_image, lines 189-202, on the wait status.
repair_image(ret) == ret.exited /\ ret.code <= 2

\* storage.cpp setup_storage, lines 124-139, up to the first mount of the
\* image: the tmpfs attempt, and create_image when the image is missing.
\* main.cpp, lines 1319-1324, calls it again without the forced file system
\* when the forced one failed.
StorageBegin ==
    /\ pc \in {"storage", "storage_auto"}
    /\ phases' = IF pc = "storage" THEN Append(phases, "StorageSetup") ELSE phases
    /\ \E force \in (IF pc = "storage" THEN BOOLEAN ELSE {FALSE}),
          tmpfs_ok \in BOOLEAN, image_ok \in BOOLEAN :
          IF ~force /\ tmpfs_ok
          THEN /\ st' = [IdleSt EXCEPT !.force_ext4 = force, !.result = "tmpfs"]
               /\ pc' = "storage_return"
          ELSE IF ~image_ok
          THEN /\ st' = [IdleSt EXCEPT !.force_ext4 = force, !.result = "throw"]
               /\ pc' = "storage_return"
          ELSE /\ st' = [IdleSt EXCEPT !.force_ext4 = force]
               /\ pc' = "mount_image"
    /\ UNCHANGED <<status, ignore_protocol_mismatch, moduledir, can_use_hymofs,
                   module_list, storage, staging, plan, kernel_rules,
                   kernel_calls, ex, mounts, exec_result, state_file, rr, mo,
                   rs, mm>>

\* storage.cpp setup_ext4_image, line 105: the first mount_image.
MountImageInitial ==
    /\ pc = "mount_image"
    /\ \E ok \in BOOLEAN :
          /\ st' = [st EXCEPT !.mount_attempts = @ + 1,
                              !.result = IF ok THEN "ext4" ELSE @]
          /\ pc' = IF ok THEN "storage_return" ELSE "repair_image"
    /\ UNCHANGED <<status, ignore_protocol_mismatch, moduledir, can_use_hymofs,
                   module_list, storage, staging, plan, kernel_rules,
                   kernel_calls, phases, ex, mounts, exec_result, state_file,
                   rr, mo, rs, mm>>

\* storage.cpp setup_ext4_image, lines 108-115: repair_image.
RepairImage ==
    /\ pc = "repair_image"
    /\ \E ret \in FsckResults :
          /\ st' = [st EXCEPT !.fsck = ret,
                              !.result = IF repair_image(ret) THEN @ ELSE "throw"]
          /\ pc' = IF repair_image(ret) THEN "mount_retry" ELSE "storage_return"
    /\ UNCHANGED <<status, ignore_protocol_mismatch, moduledir, can_use_hymofs,
                   module_list, storage, staging, plan, kernel_rules,
                   kernel_calls, phases, ex, mounts, exec_result, state_file,
                   rr, mo, rs, mm>>

\* storage.cpp setup_ext4_image, lines 110-112: the mount after the repair.
MountImageRetry ==
    /\ pc = "mount_retry"
    /\ \E ok \in BOOLEAN :
          st' = [st EXCEPT !.mount_attempts = @ + 1,
                           !.result = IF ok THEN "ext4" ELSE "throw"]
    /\ pc' = "storage_return"
    /\ UNCHANGED <<status, ignore_protocol_mismatch, moduledir, can_use_hymofs,
                   module_list, storage, staging, plan, kernel_rules,
                   kernel_calls, phases, ex, mounts, exec_result, state_file,
                   rr, mo, rs, mm>>

\* As StorageReturn with the legacy path going on to the sync without reading
\* the modules.
StorageReturnNoScan ==
    /\ pc = "storage_return"
    /\ st' = IdleSt
    /\ IF st.result # "throw"
       THEN /\ storage' = [mode |-> st.result, mount_point |-> <<STAGING>>]
            /\ pc' = "sync"
       ELSE /\ storage' = storage
            /\ pc' = IF ~can_use_hymofs THEN "failed"
                     ELSE IF st.force_ext4 THEN "storage_auto"
                     ELSE "fallback"
    /\ staging' = IF st.result = "tmpfs" THEN {} ELSE staging
    /\ UNCHANGED <<status, ignore_protocol_mismatch, moduledir, can_use_hymofs,
                   module_list, plan, kernel_rules, kernel_calls, phases, ex,
                   mounts, exec_result, state_file, rr, mo, rs, mm>>

\* setup_storage returns or throws.  A tmpfs mounted on the staging root is
\* empty; an ext4 image shows what earlier runs left in it (storage.cpp,
\* lines 135-139).  main.cpp, lines 1319-1328 and 1424-1426
\* (fast path: a forced file system is tried again as AUTO, any other failure
\* ends the mirror strategy) and line 1484 (legacy path: the failure is fatal).
StorageReturn ==
    /\ pc = "storage_return"
    /\ st' = IdleSt
    /\ IF st.result # "throw"
       THEN /\ storage' = [mode |-> st.result, mount_point |-> <<STAGING>>]
            /\ pc' = IF can_use_hymofs THEN "sync" ELSE "scan"
       ELSE /\ storage' = storage
            /\ pc' = IF ~can_use_hymofs THEN "failed"
                     ELSE IF st.force_ext4 THEN "storage_auto"
                     ELSE "fallback"
    /\ staging' = IF st.result = "tmpfs" THEN {} ELSE staging
    /\ UNCHANGED <<status, ignore_protocol_mismatch, moduledir, can_use_hymofs,
                   module_list, plan, kernel_rules, kernel_calls, phases, ex,
                   mounts, exec_result, state_file, rr, mo, rs, mm>>

\* main.cpp, lines 1380-1421: the fast path copies every active module with
\* sync_dir; one failure ends the mirror strategy.
RECURSIVE SyncAll(_, _, _, _)
SyncAll(fsys, dirs, modules, i) ==
    IF i > Len(modules) THEN fsys
    ELSE SyncAll(sync_dir(fsys, dirs, modules[i].id), dirs, modules, i + 1)

SyncFast ==
    /\ pc = "sync"
    /\ can_use_hymofs
    /\ phases' = Append(phases, "Sync")
    /\ \E sync_ok \in BOOLEAN :
          IF sync_ok
          THEN /\ staging' = SyncAll(staging, moduledir, module_list, 1)
               /\ pc' = "plan"
          ELSE /\ staging' = staging
               /\ pc' = "fallback"
    /\ UNCHANGED <<status, ignore_protocol_mismatch, moduledir, can_use_hymofs,
                   module_list, storage, st, plan, kernel_rules, kernel_calls,
                   ex, mounts, exec_result, state_file, rr, mo, rs, mm>>

\* main.cpp, lines 1490-1513: the legacy path calls perform_sync.
SyncLegacy ==
    /\ pc = "sync"
    /\ ~can_use_hymofs
    /\ phases' = Append(phases, "Sync")
    /\ \E failed \in SUBSET Range(ModuleIds), same_prop \in SUBSET Range(ModuleIds) :
          staging' = perform_sync(staging, moduledir, module_list, failed,
                                  same_prop)
    /\ pc' = "plan"
    /\ UNCHANGED <<status, ignore_protocol_mismatch, moduledir, can_use_hymofs,
                   module_list, storage, st, plan, kernel_rules, kernel_calls,
                   ex, mounts, exec_result, state_file, rr, mo, rs, mm>>

\* main.cpp, lines 1404 and 1517: generate_plan.
GeneratePlan ==
    /\ pc = "plan"
    /\ phases' = Append(phases, "Plan")
    /\ plan' = generate_plan(status, ignore_protocol_mismatch, module_list, staging)
    /\ pc' = IF can_use_hymofs THEN "segregate" ELSE "execute"
    /\ UNCHANGED <<status, ignore_protocol_mismatch, moduledir, can_use_hymofs,
                   module_list, storage, st, staging, kernel_rules,
                   kernel_calls, ex, mounts, exec_result, state_file, rr, mo,
                   rs, mm>>

\* main.cpp, line 1407: segregate_custom_rules.
SegregateCustomRules ==
    /\ pc = "segregate"
    /\ LET s == segregate_custom_rules(staging, plan.overlay_ops)
       IN /\ staging' = s.fsys
          /\ plan' = [plan EXCEPT !.overlay_ops = s.overlay_ops]
    /\ pc' = "emit"
    /\ UNCHANGED <<status, ignore_protocol_mismatch, moduledir, can_use_hymofs,
                   module_list, storage, st, kernel_rules, kernel_calls,
                   phases, ex, mounts, exec_result, state_file, rr, mo, rs,
                   mm>>

\* planner.cpp update_hymofs_mappings, called at main.cpp line 1408.
UpdateHymofsMappings ==
    /\ pc = "emit"
    /\ phases' = Append(phases, "HymofsEmission")
    /\ IF ~is_available(status)
       THEN UNCHANGED <<plan, kernel_rules, kernel_calls>>
       ELSE LET c == CollectRules(module_list, staging, plan)
                calls == <<ClearCall>> \o RuleCalls(c)
            IN /\ plan' = [plan EXCEPT !.overlay_ops = c.overlay_ops]
               /\ kernel_calls' = kernel_calls \o calls
               /\ kernel_rules' = KernelApplyAll(kernel_rules, calls, 1)
    /\ pc' = "execute"
    /\ UNCHANGED <<status, ignore_protocol_mismatch, moduledir, can_use_hymofs,
                   module_list, storage, st, staging, ex, mounts, exec_result,
                   state_file, rr, mo, rs, mm>>

\* main.cpp, lines 1428-1460: the mirror strategy failed; the modules are
\* read again and a magic mount plan over their source directories is built.
MirrorFallback ==
    /\ pc = "fallback"
    /\ phases' = Append(phases, "Inventory")
    /\ storage' = [mode |-> "tmpfs", mount_point |-> <<MODULEDIR>>]
    /\ module_list' = scan_modules(moduledir)
    /\ plan' = [plan EXCEPT
                   !.overlay_ops = <<>>,
                   !.hymofs_module_ids = <<>>,
                   !.magic_module_paths =
                       {module_list'[i].source_path : i \in
                           {j \in 1..Len(module_list') :
                               HasContent(SourceTree(moduledir), module_list'[j])}}]
    /\ pc' = "execute"
    /\ UNCHANGED <<status, ignore_protocol_mismatch, moduledir, can_use_hymofs,
                   st, staging, kernel_rules, kernel_calls, ex, mounts,
                   exec_result, state_file, rr, mo, rs, mm>>

\* A vector holding the members of a set of paths.
RECURSIVE SeqOfSet(_)
SeqOfSet(S) ==
    IF S = {} THEN <<>>
    ELSE LET x == CHOOSE y \in S : TRUE IN <<x>> \o SeqOfSet(S \ {x})

\* executor.cpp execute_plan, lines 26-33: the locals.
ExecutePlanBegin ==
    /\ pc = "execute"
    /\ phases' = Append(phases, "OverlayExecution")
    /\ ex' = [next |-> 1, magic_queue |-> SeqOfSet(plan.magic_module_paths),
              fallback_ids |-> <<>>]
    /\ pc' = "overlay_op"
    /\ UNCHANGED <<status, ignore_protocol_mismatch, moduledir, can_use_hymofs,
                   module_list, storage, st, staging, plan, kernel_rules,
                   kernel_calls, mounts, exec_result, state_file, rr, mo, rs,
                   mm>>

\* executor.cpp execute_plan, lines 36-67: one overlay operation, with
\* mount_overlay succeeding or failing.
MountOverlay ==
    /\ pc = "overlay_op"
    /\ ex.next <= Len(plan.overlay_ops)
    /\ LET op == plan.overlay_ops[ex.next]
           raw == StrToPath(op.target)
           target_root == IF LiveExists(raw) THEN PathStr(Canonical(raw))
                          ELSE op.target
           lowerdir_strings == [i \in 1..Len(op.lowerdirs) |->
                                   PathStr(op.lowerdirs[i])]
           mounted == [target |-> target_root,
                       lowerdir |-> LowerdirConfig(target_root, lowerdir_strings)]
           q == FallbackLayers([magic_queue |-> ex.magic_queue,
                                fallback_ids |-> ex.fallback_ids],
                               op.lowerdirs, 1)
       IN \E ok \in BOOLEAN :
             /\ mounts' = [mounts EXCEPT
                              !.attempted = Append(@, [op |-> op, ok |-> ok]),
                              !.overlays = IF ok THEN Append(@, mounted) ELSE @]
             /\ ex' = IF ok THEN [ex EXCEPT !.next = @ + 1]
                      ELSE [next |-> ex.next + 1,
                            magic_queue |-> q.magic_queue,
                            fallback_ids |-> q.fallback_ids]
    /\ UNCHANGED <<pc, status, ignore_protocol_mismatch, moduledir,
                   can_use_hymofs, module_list, storage, st, staging, plan,
                   kernel_rules, kernel_calls, phases, exec_result, state_file,
                   rr, mo, rs, mm>>

\* executor.cpp execute_plan, lines 69-126: the id lists are adjusted and the
\* magic queue is mounted, mount_partitions succeeding or failing.
MagicMount ==
    /\ pc = "overlay_op"
    /\ ex.next > Len(plan.overlay_ops)
    /\ phases' = Append(phases, "MagicMountExecution")
    /\ LET queue == std_unique(SortGrouped(SeqOfSet(Range(ex.magic_queue)),
                                            ex.magic_queue, 1))
           final_overlay_ids == plan.overlay_module_ids \ Range(ex.fallback_ids)
       IN \E ok \in BOOLEAN :
             /\ mounts' = IF queue = <<>> THEN mounts
                          ELSE [mounts EXCEPT !.magic = Append(@, queue)]
             /\ exec_result' =
                    [overlay_module_ids |-> final_overlay_ids,
                     magic_module_ids |-> IF queue # <<>> /\ ok
                                          THEN FinalMagicIds(Range(queue))
                                          ELSE {}]
    /\ pc' = "save"
    /\ UNCHANGED <<status, ignore_protocol_mismatch, moduledir, can_use_hymofs,
                   module_list, storage, st, staging, plan, kernel_rules,
                   kernel_calls, ex, state_file, rr, mo, rs, mm>>

\* main.cpp, lines 1540-1657: the runtime state is saved and, on the fast
\* path, the kernel's enabled flag is set last.
SaveState ==
    /\ pc = "save"
    /\ phases' = Append(phases, "StateSave")
    /\ state_file' =
           [saved |-> TRUE, storage_mode |-> storage.mode,
            mount_point |-> storage.mount_point,
            overlay_module_ids |-> exec_result.overlay_module_ids,
            magic_module_ids |-> exec_result.magic_module_ids,
            hymofs_module_ids |-> plan.hymofs_module_ids,
            hymofs_mismatch |-> status \in {"KernelTooOld", "ModuleTooOld"}]
    /\ kernel_calls' = IF can_use_hymofs
                       THEN Append(kernel_calls,
                                [op |-> "set_enabled", src |-> <<>>,
                                 target |-> <<>>, type |-> "DT_UNKNOWN"])
                       ELSE kernel_calls
    /\ pc' = "done"
    /\ UNCHANGED <<status, ignore_protocol_mismatch, moduledir, can_use_hymofs,
                   module_list, storage, st, staging, plan, kernel_rules, ex,
                   mounts, exec_result, rr, mo, rs, mm>>

Next ==
    \/ Start
    \/ ScanModules
    \/ StorageBegin
    \/ MountImageInitial
    \/ RepairImage
    \/ MountImageRetry
    \/ StorageReturn
    \/ SyncFast
    \/ SyncLegacy
    \/ GeneratePlan
    \/ SegregateCustomRules
    \/ UpdateHymofsMappings
    \/ MirrorFallback
    \/ ExecutePlanBegin
    \/ MountOverlay
    \/ MagicMount
    \/ SaveState

Spec == Init /\ [][Next]_vars

\* --------------------------------------------- a run over an earlier image
\*
\* The same command started when modules.img holds what an earlier run left:
\* the copy of module A as it was then (vendor/v), the directory of a module
\* that has since been removed, and lost+found.

OrphanId == "old_mod"

PriorStagings ==
    LET PriorModuleA == TreeAt(STAGING, "A", TreeVendor)
        PriorOrphan ==
            TreeAt(STAGING, OrphanId, TreeHosts) \cup
            {FsEntry(<<STAGING, "lost+found">>, "dir")}
    IN {{}, PriorModuleA, PriorOrphan, PriorModuleA \cup PriorOrphan}

PersistModuleDir ==
    [mode : {"auto", "magic"},
     fixture : {[tree |-> TreeHosts, rules |-> <<>>],
                [tree |-> TreeHosts,
                 rules |-> <<Rule(PathStr(<<"system", "etc">>), "overlay")>>],
                [tree |-> TreeEmpty, rules |-> <<>>]}]

InitPersist ==
    /\ pc = "start"
    /\ status \in Statuses
    /\ ignore_protocol_mismatch \in BOOLEAN
    /\ moduledir \in [Range(ModuleIds) -> PersistModuleDir]
    /\ can_use_hymofs = FALSE
    /\ module_list = <<>>
    /\ storage = NoStorage
    /\ st = IdleSt
    /\ staging \in PriorStagings
    /\ plan = EmptyPlan
    /\ kernel_rules = {StaleRule}
    /\ kernel_calls = <<>>
    /\ phases = <<>>
    /\ ex = IdleEx
    /\ mounts = NoMounts
    /\ exec_result = NoResult
    /\ state_file = NoState
    /\ mo = IdleMo
    /\ rs = IdleRs
    /\ mm = IdleMm
    /\ rr = IdleRr

SpecPersist == InitPersist /\ [][Next]_vars

\* ------------------------------------- a run over whiteouts and mixed rules
\*
\* The same command over modules that hold whiteouts (character devices with
\* device number 0) and over a module whose rules match only a part of its
\* tree.

\* Whiteouts below a directory the live root has (system/etc) and below one
\* it lacks (system/lib), next to a regular file.
TreeWhiteout ==
    {Entry(<<"system">>, "dir"), Entry(<<"system", "etc">>, "dir"),
     Entry(<<"system", "etc", "gone">>, "chr0"),
     Entry(<<"system", "lib">>, "dir"),
     Entry(<<"system", "lib", "gone">>, "chr0"),
     Entry(<<"vendor">>, "dir"), Entry(<<"vendor", "v">>, "reg")}

\* A regular file at the path of TreeWhiteout's whiteout system/lib/gone.
TreeLibGone ==
    {Entry(<<"system">>, "dir"), Entry(<<"system", "lib">>, "dir"),
     Entry(<<"system", "lib", "gone">>, "reg")}

MixedRules ==
    <<Rule(PathStr(<<"system", "lib">>), "magic"),
      Rule(PathStr(<<"system", "lib", "modules">>), "hymofs")>>

TreesModuleDir ==
    [mode : {"auto", "overlay"},
     fixture : {[tree |-> TreeWhiteout, rules |-> <<>>],
                [tree |-> TreeWhiteout,
                 rules |-> <<Rule(PathStr(<<"system", "lib">>), "overlay")>>],
                [tree |-> TreeLib \cup TreeHosts, rules |-> MixedRules],
                [tree |-> TreeHosts, rules |-> <<>>],
                [tree |-> TreeLibGone, rules |-> <<>>],
                [tree |-> TreeVendor, rules |-> <<>>],
                [tree |-> TreeEmpty, rules |-> <<>>]}]

InitTrees ==
    /\ pc = "start"
    /\ status \in Statuses
    /\ ignore_protocol_mismatch \in BOOLEAN
    /\ moduledir \in [Range(ModuleIds) -> TreesModuleDir]
    /\ can_use_hymofs = FALSE
    /\ module_list = <<>>
    /\ storage = NoStorage
    /\ st = IdleSt
    /\ staging = {}
    /\ plan = EmptyPlan
    /\ kernel_rules = {StaleRule}
    /\ kernel_calls = <<>>
    /\ phases = <<>>
    /\ ex = IdleEx
    /\ mounts = NoMounts
    /\ exec_result = NoResult
    /\ state_file = NoState
    /\ mm = IdleMm
    /\ rr = IdleRr
    /\ mo = IdleMo
    /\ rs = IdleRs

SpecTrees == InitTrees /\ [][Next]_vars

\* ------------------------------------------- rule resolution on its own
\*
\* One module with a rule list read by parse_module_rules, one entry of its
\* tree, and the two loops that resolve the entry's mode.

\* Rule paths as parse_module_rules can produce them: the path is whatever
\* precedes '=', trimmed, so it may be empty, "/" or end in '/'.
RulePaths ==
    {<<>>, <<"/">>, PathStr(<<"system">>), PathStr(<<"system">>) \o <<"/">>,
     PathStr(<<"system", "etc">>)}

RuleModes == {"overlay", "hymofs", "none"}

RECURSIVE RuleLists(_)
RuleLists(n) ==
    IF n = 0 THEN {<<>>}
    ELSE RuleLists(n - 1) \cup
         {Append(r, Rule(p, m)) :
             r \in {x \in RuleLists(n - 1) : Len(x) = n - 1},
             p \in RulePaths, m \in RuleModes}

\* "/" + rel.string() for entries of a module tree.
EntryPaths ==
    {PathStr(<<"system", "etc">>), PathStr(<<"system", "etc", "hosts">>),
     PathStr(<<"vendor", "v">>)}

InitResolve ==
    /\ pc = "resolve"
    /\ status \in Statuses
    /\ ignore_protocol_mismatch \in BOOLEAN
    /\ moduledir = [id \in Range(ModuleIds) |->
                       [mode |-> "none", fixture |-> [tree |-> TreeEmpty,
                                                      rules |-> <<>>]]]
    /\ can_use_hymofs = FALSE
    /\ module_list = <<>>
    /\ storage = NoStorage
    /\ st = IdleSt
    /\ staging = {}
    /\ plan = EmptyPlan
    /\ kernel_rules = {StaleRule}
    /\ kernel_calls = <<>>
    /\ phases = <<>>
    /\ ex = IdleEx
    /\ mounts = NoMounts
    /\ exec_result = NoResult
    /\ state_file = NoState
    /\ mo = IdleMo
    /\ rs = IdleRs
    /\ mm = IdleMm
    /\ rr \in [phase : {"asked"}, rules : RuleLists(MaxRules),
               path_str : EntryPaths, mode : ModuleModes,
               planner_mode : {""}, rule_found : {FALSE},
               emitter_ran : {FALSE}, emitter_mode : {""}]

\* generate_plan, lines 128-130 and 179-194, for the entry.
ResolvePlanner ==
    /\ pc = "resolve"
    /\ rr.phase = "asked"
    /\ LET default_mode ==
               PlannerDefaultMode(rr.mode,
                                  UseHymofs(status, ignore_protocol_mismatch))
           res == PlannerResolve(rr.rules, rr.path_str, default_mode)
       IN rr' = [rr EXCEPT !.phase = "planned", !.planner_mode = res.mode,
                           !.rule_found = res.rule_found]
    /\ UNCHANGED <<pc, status, ignore_protocol_mismatch, moduledir,
                   can_use_hymofs, module_list, storage, st, staging, plan,
                   kernel_rules, kernel_calls, phases, ex, mounts, exec_result,
                   state_file, mo, rs, mm>>

\* update_hymofs_mappings, lines 307, 359-361 and 377-390, for the entry; the
\* loop is not reached when HymoFS is not available.
ResolveEmitter ==
    /\ pc = "resolve"
    /\ rr.phase = "planned"
    /\ rr' = IF ~is_available(status) THEN [rr EXCEPT !.phase = "emitted"]
             ELSE [rr EXCEPT
                      !.phase = "emitted", !.emitter_ran = TRUE,
                      !.emitter_mode =
                          EmitterResolve(rr.rules, rr.path_str,
                                         EmitterDefaultMode(rr.mode)).mode]
    /\ UNCHANGED <<pc, status, ignore_protocol_mismatch, moduledir,
                   can_use_hymofs, module_list, storage, st, staging, plan,
                   kernel_rules, kernel_calls, phases, ex, mounts, exec_result,
                   state_file, mo, rs, mm>>

NextResolve ==
    \/ ResolvePlanner
    \/ ResolveEmitter

SpecResolve == InitResolve /\ [][NextResolve]_vars

\* ================================================================= claims

\* The module that owns a path below the staging root, and the path relative
\* to that module's root; a segregated layer lives below .overlay_staging.
OwnerOf(p) == IF p[2] = OVERLAY_STAGING THEN p[3] ELSE p[2]

RelOf(p) ==
    IF p[2] = OVERLAY_STAGING THEN SubSeq(p, 4, Len(p)) ELSE SubSeq(p, 3, Len(p))

\* generate_plan has produced the plan of this run and, on the fast path,
\* update_hymofs_mappings has returned.
PlanCommitted == pc = "execute" /\ "Plan" \in Range(phases)

\* The rules update_hymofs_mappings submitted in this run.
SubmittedRules ==
    {kernel_calls[i] : i \in {j \in 1..Len(kernel_calls) :
        kernel_calls[j].op \in {"add_rule", "add_merge_rule"}}}

\* The files (entries that are no directory) of the planned modules' staged
\* trees, below a partition root.
StagedFiles ==
    {e \in staging :
        /\ e.type # "dir"
        /\ Len(e.path) >= 3
        /\ Len(RelOf(e.path)) >= 2
        /\ \E i \in 1..Len(module_list) : module_list[i].id = OwnerOf(e.path)}

ModuleOf(id) ==
    module_list[CHOOSE i \in 1..Len(module_list) : module_list[i].id = id]

\* A backend claims a staged file: a magic root is the module root or a
\* directory above the file; an overlay layer is a directory above the file;
\* a HymoFS rule redirects to the file or merges a directory above it.
MagicClaims(e) ==
    \E root \in plan.magic_module_paths :
        IsPrefix(root, <<STAGING, OwnerOf(e.path)>> \o RelOf(e.path))

OverlayClaims(e) ==
    \E k \in 1..Len(plan.overlay_ops) :
        \E i \in 1..Len(plan.overlay_ops[k].lowerdirs) :
            IsPrefix(plan.overlay_ops[k].lowerdirs[i], e.path)

HymofsClaims(e) == \E c \in SubmittedRules : IsPrefix(c.target, e.path)

ClaimCount(e) ==
    (IF MagicClaims(e) THEN 1 ELSE 0) + (IF OverlayClaims(e) THEN 1 ELSE 0) +
    (IF HymofsClaims(e) THEN 1 ELSE 0)

ResolvedMode(e) ==
    LET m == ModuleOf(OwnerOf(e.path))
    IN PlannerResolve(m.rules, PathStr(RelOf(e.path)),
           PlannerDefaultMode(m.mode,
               UseHymofs(status, ignore_protocol_mismatch))).mode

\* C1: once the plan and the HymoFS rules of a run are made, every file of
\* every planned module's staged tree is claimed by exactly one backend, or by
\* none when its resolved mode is none; no file is claimed by a magic root
\* and also by HymoFS or by an overlay layer.
C1_ExactlyOneBackend ==
    PlanCommitted =>
        \A e \in StagedFiles :
            /\ ClaimCount(e) = 1 \/ (ClaimCount(e) = 0 /\ ResolvedMode(e) = "none")
            /\ ~(MagicClaims(e) /\ (HymofsClaims(e) \/ OverlayClaims(e)))

\* C1, the case of the claim's last clause: a file claimed by a magic root and
\* by a HymoFS rule of the same module.
C1_MagicAndHymofs ==
    /\ PlanCommitted
    /\ \E e \in StagedFiles : MagicClaims(e) /\ HymofsClaims(e)

\* C2: no add rule submitted to the kernel has a src that equals the target
\* of an overlay operation of the plan or lies below it.
C2_NoAddRuleUnderOverlayTarget ==
    PlanCommitted =>
        \A c \in SubmittedRules :
            c.op = "add_rule" =>
                \A k \in 1..Len(plan.overlay_ops) :
                    /\ c.src # plan.overlay_ops[k].target
                    /\ ~IsPrefix(plan.overlay_ops[k].target \o <<"/">>, c.src)

\* C2, the case the claim is about: an add rule was submitted while the plan
\* holds an overlay operation.
C2_AddRuleBesideOverlay ==
    /\ PlanCommitted
    /\ plan.overlay_ops # <<>>
    /\ \E c \in SubmittedRules : c.op = "add_rule"

\* The module that owns a layer of a lowerdir option.
LayerOwner(layer_string) == OwnerOf(StrToPath(layer_string))

\* C3: in the lowerdir option of every mounted overlay the module layers run
\* from the highest module id to the lowest and the mirror comes last.
C3_LowerdirPriorityOrder ==
    \A n \in 1..Len(mounts.overlays) :
        LET lowerdir == mounts.overlays[n].lowerdir
            layers == Front(lowerdir)
        IN /\ Last(lowerdir) = MirrorPath(mounts.overlays[n].target)
           /\ \A i \in 1..Len(layers) : \A j \in (i + 1)..Len(layers) :
                  ~IdGreater(LayerOwner(layers[j]), LayerOwner(layers[i]))

\* C3, the ordered case: an overlay mounted with two modules' layers, the
\* higher id first.
C3_TwoLayersMounted ==
    \E n \in 1..Len(mounts.overlays) :
        LET lowerdir == mounts.overlays[n].lowerdir
        IN /\ Len(lowerdir) = 3
           /\ IdGreater(LayerOwner(lowerdir[1]), LayerOwner(lowerdir[2]))

\* A rule prefix matches a path: the prefix is the path, or the path starts
\* with the prefix followed by "/".
PrefixMatches(prefix, path_str) ==
    path_str = prefix \/ IsPrefix(prefix \o <<"/">>, path_str)

\* The mode longest-prefix resolution names, over the rules whose index is in
\* candidates: the first of the longest matching rules, else the default.
LongestPrefixMode(rules, candidates, path_str, default_mode) ==
    LET matching == {i \in candidates : PrefixMatches(rules[i].path, path_str)}
        longest == {i \in matching :
                       \A j \in matching : Len(rules[j].path) <= Len(rules[i].path)}
    IN IF matching = {} THEN default_mode
       ELSE rules[CHOOSE i \in longest : \A j \in longest : i <= j].mode

\* The default modes the two loops start from.
RrPlannerDefault ==
    PlannerDefaultMode(rr.mode, UseHymofs(status, ignore_protocol_mismatch))

RrEmitterDefault == EmitterDefaultMode(rr.mode)

\* C4 as stated: the resolved mode is that of the first of the longest
\* matching rules, over all the rules of the list, else the module default,
\* and the emitter resolves the path to the mode the planner resolves it to.
C4_LongestPrefixAllRules ==
    rr.phase \in {"planned", "emitted"} =>
        /\ rr.planner_mode =
               LongestPrefixMode(rr.rules, DOMAIN rr.rules, rr.path_str,
                                 RrPlannerDefault)
        /\ rr.emitter_ran => rr.emitter_mode = rr.planner_mode

\* C4, amended: the resolved mode is that of the first of the longest
\* matching rules among the rules with a non-empty prefix, else the module
\* default (a rule with an empty prefix is never selected), and the emitter
\* resolves the path to the mode the planner resolves it to.
C4_LongestPrefixNonEmptyRules ==
    rr.phase \in {"planned", "emitted"} =>
        /\ rr.planner_mode =
               LongestPrefixMode(rr.rules,
                                 {i \in DOMAIN rr.rules : rr.rules[i].path # <<>>},
                                 rr.path_str, RrPlannerDefault)
        /\ rr.emitter_ran =>
               /\ rr.emitter_mode = rr.planner_mode
               /\ rr.emitter_mode =
                      LongestPrefixMode(rr.rules,
                          {i \in DOMAIN rr.rules : rr.rules[i].path # <<>>},
                          rr.path_str, RrEmitterDefault)

\* C4, the tie: both loops have run on two matching rules with one prefix and
\* different modes, and the mode is the first rule's.
C4_TieResolved ==
    /\ rr.phase = "emitted"
    /\ rr.emitter_ran
    /\ Len(rr.rules) = 2
    /\ rr.rules[1].path = rr.rules[2].path
    /\ rr.rules[1].mode # rr.rules[2].mode
    /\ PrefixMatches(rr.rules[1].path, rr.path_str)
    /\ rr.rules[1].path # <<>>
    /\ rr.planner_mode = rr.rules[1].mode

\* C5: when the rule "/" is the only rule of the module, every path of the
\* module's tree resolves to that rule's mode.
C5_RootRuleMatchesEveryEntry ==
    (/\ rr.phase \in {"planned", "emitted"}
     /\ Len(rr.rules) = 1
     /\ rr.rules[1].path = <<"/">>) =>
        /\ rr.planner_mode = rr.rules[1].mode
        /\ rr.emitter_ran => rr.emitter_mode = rr.rules[1].mode

\* execute_plan has gone through every overlay operation and returned.
ExecuteReturned == pc \in {"save", "done"}

FailedOps ==
    {mounts.attempted[n].op : n \in {m \in 1..Len(mounts.attempted) :
                                        ~mounts.attempted[m].ok}}

\* C6: when mount_overlay failed for an operation, every layer's owning
\* module id is among the fallback ids, that module's root (in the staging
\* tree or in its segregated copy) is in the magic queue, the id is not in
\* the returned overlay ids, and every operation of the plan was attempted.
C6_FallbackRecordsOwner ==
    ExecuteReturned =>
        /\ Len(mounts.attempted) = Len(plan.overlay_ops)
        /\ \A op \in FailedOps : \A i \in 1..Len(op.lowerdirs) :
               LET owner == OwnerOf(op.lowerdirs[i])
               IN /\ owner \in Range(ex.fallback_ids)
                  /\ \/ <<STAGING, owner>> \in Range(ex.magic_queue)
                     \/ <<STAGING, OVERLAY_STAGING, owner>> \in Range(ex.magic_queue)
                  /\ owner \notin exec_result.overlay_module_ids

\* C6, the case of a partition layer: the failed operation's layer is a
\* module's partition directory and the fallback recorded its owner.
C6_PartitionLayerFellBack ==
    /\ ExecuteReturned
    /\ \E op \in FailedOps : \E i \in 1..Len(op.lowerdirs) :
           /\ Len(RelOf(op.lowerdirs[i])) = 1
           /\ OwnerOf(op.lowerdirs[i]) \in Range(ex.fallback_ids)

PhaseOrder ==
    <<"Inventory", "StorageSetup", "Sync", "Plan", "HymofsEmission",
      "OverlayExecution", "MagicMountExecution", "StateSave">>

Rank(phase) == CHOOSE n \in 1..Len(PhaseOrder) : PhaseOrder[n] = phase

StrictlyRanked(s) ==
    \A i \in 1..Len(s) : \A j \in (i + 1)..Len(s) : Rank(s[i]) < Rank(s[j])

Inventories == {i \in 1..Len(phases) : phases[i] = "Inventory"}

C7_FastRunComplete ==
    /\ pc = "done"
    /\ phases = PhaseOrder

C8_ClearRulesFirst ==
    /\ \A i \in 1..Len(kernel_calls) :
           kernel_calls[i].op \in {"add_rule", "add_merge_rule", "hide_path"} =>
               \E j \in 1..(i - 1) : kernel_calls[j].op = "clear_rules"
    /\ (pc = "done" /\ can_use_hymofs /\ "HymofsEmission" \in Range(phases)) =>
           /\ StaleRule \notin kernel_rules
           /\ \E j \in 1..Len(kernel_calls) : kernel_calls[j].op = "clear_rules"

\* C8, the case where the rule table is replaced: a finished run under status
\* Available whose rules are the only ones in the table.
C8_TableReplaced ==
    /\ pc = "done"
    /\ status = "Available"
    /\ "HymofsEmission" \in Range(phases)
    /\ kernel_rules # {}
    /\ StaleRule \notin kernel_rules

\* generate_plan has just returned.
PlanJustMade ==
    \/ pc = "segregate"
    \/ pc = "execute" /\ phases # <<>> /\ Last(phases) = "Plan"

Usable ==
    \/ status = "Available"
    \/ status \in {"KernelTooOld", "ModuleTooOld"} /\ ignore_protocol_mismatch

\* The partitions of a module's staged tree that hold something.
NonEmptyParts(id) ==
    {part \in Range(BUILTIN_PARTITIONS) :
        FsBelow(staging, <<STAGING, id, part>>) # {}}

\* How often a path is a layer of the plan.
LayerCount(path) ==
    Cardinality({q \in UNION {{<<k, i>> : i \in 1..Len(plan.overlay_ops[k].lowerdirs)} :
                                k \in 1..Len(plan.overlay_ops)} :
                    plan.overlay_ops[q[1]].lowerdirs[q[2]] = path})

LayersOwnedBy(id) ==
    {l \in UNION {Range(plan.overlay_ops[k].lowerdirs) :
                     k \in 1..Len(plan.overlay_ops)} : OwnerOf(l) = id}

OverlayLayerPerPartition(id) ==
    /\ LayersOwnedBy(id) = {<<STAGING, id, part>> : part \in NonEmptyParts(id)}
    /\ \A part \in NonEmptyParts(id) : LayerCount(<<STAGING, id, part>>) = 1
    /\ id \in plan.overlay_module_ids
    /\ ~IsListed(plan.hymofs_module_ids, id)
    /\ <<STAGING, id>> \notin plan.magic_module_paths

\* C9: HymoFS is usable iff the status is Available, or it is KernelTooOld or
\* ModuleTooOld and ignore_protocol_mismatch is set.  In the plan a module
\* with staged content and no rules is, by its mode: auto, in the HymoFS ids
\* when HymoFS is usable and else one overlay layer per non-empty partition;
\* none, in no set; magic, its root in the magic set; overlay, one overlay
\* layer per non-empty partition also when HymoFS is usable.
C9_NoRulesRouting ==
    PlanJustMade =>
        \A i \in 1..Len(module_list) :
            LET M == module_list[i]
                id == M.id
                in_hymofs == IsListed(plan.hymofs_module_ids, id)
                in_magic == <<STAGING, id>> \in plan.magic_module_paths
            IN (M.rules = <<>> /\ NonEmptyParts(id) # {}) =>
                   /\ (M.mode = "auto" /\ Usable) =>
                          /\ in_hymofs
                          /\ LayersOwnedBy(id) = {}
                          /\ ~in_magic
                          /\ id \notin plan.overlay_module_ids
                   /\ (M.mode = "auto" /\ ~Usable) => OverlayLayerPerPartition(id)
                   /\ M.mode = "overlay" => OverlayLayerPerPartition(id)
                   /\ M.mode = "none" =>
                          /\ ~in_hymofs
                          /\ ~in_magic
                          /\ LayersOwnedBy(id) = {}
                          /\ id \notin plan.overlay_module_ids
                          /\ id \notin plan.magic_module_ids
                   /\ M.mode = "magic" =>
                          /\ in_magic
                          /\ id \in plan.magic_module_ids
                          /\ ~in_hymofs
                          /\ LayersOwnedBy(id) = {}

\* C9, the forced case: under a protocol mismatch with
\* ignore_protocol_mismatch set, an auto module without rules is in the
\* HymoFS ids while an overlay module without rules has its layer.
C9_ForcedMismatchRouted ==
    /\ PlanJustMade
    /\ status = "KernelTooOld"
    /\ ignore_protocol_mismatch
    /\ \E i, j \in 1..Len(module_list) :
           /\ module_list[i].mode = "auto"
           /\ module_list[i].rules = <<>>
           /\ IsListed(plan.hymofs_module_ids, module_list[i].id)
           /\ module_list[j].mode = "overlay"
           /\ module_list[j].rules = <<>>
           /\ LayersOwnedBy(module_list[j].id) # {}

\* setup_ext4_image is about to return or throw.
Ext4Leaving == pc = "storage_return" /\ st.mount_attempts > 0

\* C10: setup_ext4_image mounts the image at most twice.  A second mount
\* happens exactly when the first failed and e2fsck exited with 0, 1 or 2; if
\* it succeeds the mode is ext4, if it fails the call throws.  When e2fsck
\* exits with more than 2 or does not exit normally the call throws after the
\* one mount.
C10_MountAtMostTwice ==
    /\ st.mount_attempts <= 2
    /\ Ext4Leaving =>
           /\ st.result \in {"ext4", "throw"}
           /\ st.mount_attempts = 2 <=>
                  (st.fsck.ran /\ st.fsck.exited /\ st.fsck.code \in {0, 1, 2})
           /\ (st.fsck.ran /\ (~st.fsck.exited \/ st.fsck.code > 2)) =>
                  (st.result = "throw" /\ st.mount_attempts = 1)
           /\ (~st.fsck.ran) => (st.result = "ext4" /\ st.mount_attempts = 1)

\* C10, the repaired case: e2fsck exited with 2, the image was mounted on the
\* second attempt and the mode is ext4.
C10_RepairedAndMounted ==
    /\ Ext4Leaving
    /\ st.fsck.ran
    /\ st.fsck.code = 2
    /\ st.mount_attempts = 2
    /\ st.result = "ext4"

\* --------------------------------------------- claims on sync and pruning

\* The partition directories of module id hold nothing in <moduledir>.
SourceEmpty(id) ==
    \A part \in Range(BUILTIN_PARTITIONS) :
        FsBelow(SourceTree(moduledir), <<MODULEDIR, id, part>>) = {}

\* No backend of the plan holds module id.
Unassigned(id) ==
    /\ id \notin plan.overlay_module_ids
    /\ ~IsListed(plan.hymofs_module_ids, id)
    /\ LayersOwnedBy(id) = {}
    /\ \A root \in plan.magic_module_paths : root[2] # id

\* C11: in a run over a persistent image, a module whose partition
\* directories are all empty in <moduledir> is not copied to the staging root
\* and, once generate_plan has returned, is in no backend of the plan, also
\* when the image holds content an earlier run staged for it.
C11_EmptyModuleSkipped ==
    PlanJustMade =>
        \A id \in Range(ModuleIds) :
            SourceEmpty(id) =>
                /\ \A e \in moduledir[id].fixture.tree :
                       ~FsExists(staging, <<STAGING, id>> \o e.rel)
                /\ Unassigned(id)

\* C11, the case: the plan is made while an empty module still has content in
\* the image.
C11_EmptyModuleWithStaleCopy ==
    /\ PlanJustMade
    /\ \E id \in Range(ModuleIds) :
           SourceEmpty(id) /\ FsBelow(staging, <<STAGING, id>>) # {}

\* The ids of the modules scan_modules finds in this run.
InventoryIds ==
    {scan_modules(moduledir)[i].id : i \in 1..Len(scan_modules(moduledir))}

\* C12: when generate_plan is about to be called, every direct child of the
\* staging root is hymo, lost+found or the id of a module of the current
\* inventory, on the fast path as on the legacy path.
C12_OrphansPrunedBeforePlan ==
    pc = "plan" =>
        \A e \in staging :
            Len(e.path) >= 2 =>
                e.path[2] \in {"hymo", "lost+found"} \cup InventoryIds

\* C12, the case: generate_plan is about to be called on the legacy path over
\* an image that held the directory of a removed module.
C12_PlanOverPrunedImage ==
    /\ pc = "plan"
    /\ ~can_use_hymofs
    /\ storage.mode = "ext4"
    /\ FsExists(staging, <<STAGING, "lost+found">>)
    /\ ~FsExists(staging, <<STAGING, OrphanId>>)

\* ------------------------------------------- mount_overlay over child mounts
\*
\* One call of mount_overlay for the target /system while other file systems
\* are mounted below it, a directory on /system/etc and a single file on
\* /system/etc/hosts, and beside it, on /system_ext and /vendor.  The module layers are the system directories of the
\* staged modules.  None of the partitions of the loop at lines 420-456 is a
\* directory below the target here, so that loop mounts nothing.

TreeEtcFile == {Entry(<<"system">>, "dir"), Entry(<<"system", "etc">>, "reg")}

\* The string "/system_ext", cut after "/system" and after "_" so that the
\* character-wise find and substr of the code act on it as on the string.
SYSTEM_EXT == <<"/", "system", "_", "ext">>

\* /proc/self/mountinfo in the order get_child_mounts sorts the mount points;
\* type is what is mounted there.
MountInfo ==
    << [mount_point |-> <<"/">>, type |-> "dir"],
       [mount_point |-> PathStr(<<"system">>), type |-> "dir"],
       [mount_point |-> PathStr(<<"system", "etc">>), type |-> "dir"],
       [mount_point |-> PathStr(<<"system", "etc", "hosts">>), type |-> "reg"],
       [mount_point |-> SYSTEM_EXT, type |-> "dir"],
       [mount_point |-> PathStr(<<"vendor">>), type |-> "dir"] >>

\* overlay.cpp get_child_mounts
get_child_mounts(mountinfo, target_root) ==
    SelectSeq(mountinfo,
              LAMBDA m : /\ IsPrefix(target_root, m.mount_point)
                         /\ m.mount_point # target_root)

\* overlay.cpp mount_overlay_child; stock_type is what the mirror holds at
\* stock_root, overlay_ok and bind_ok are the results of the mount calls.
mount_overlay_child(fsys, child, relative, module_roots, stock_root, overlay_ok, bind_ok) ==
    LET at(i) == StrToPath(module_roots[i]) \o StrToPath(Substr1(relative))
        layers == 1..Len(module_roots)
        has_modification == \E i \in layers : FsExists(fsys, at(i))
        overwritten ==
            \E i \in layers : FsExists(fsys, at(i)) /\ ~FsIsDirectory(fsys, at(i))
        dir_paths == SelectSeq([i \in layers |-> at(i)],
                               LAMBDA p : FsIsDirectory(fsys, p))
        lower_dirs == [i \in 1..Len(dir_paths) |-> PathStr(dir_paths[i])]
        bound == [mount_point |-> child.mount_point, how |-> "bind",
                  lowerdir |-> <<stock_root>>, mounted |-> bind_ok,
                  overlay_ok |-> overlay_ok, ok |-> bind_ok]
    IN IF ~has_modification THEN bound
       ELSE IF child.type # "dir"
       THEN [mount_point |-> child.mount_point, how |-> "none",
             lowerdir |-> <<>>, mounted |-> FALSE, overlay_ok |-> overlay_ok,
             ok |-> TRUE]
       ELSE IF overwritten \/ lower_dirs = <<>> THEN bound
       ELSE IF overlay_ok
       THEN [mount_point |-> child.mount_point, how |-> "overlay",
             lowerdir |-> lower_dirs \o <<stock_root>>, mounted |-> TRUE,
             overlay_ok |-> overlay_ok, ok |-> TRUE]
       ELSE bound

OverlayTrees == {TreeHosts, TreeLib, TreeEtcFile}

InitOverlay ==
    /\ pc = "mount_overlay"
    /\ status = "NotPresent"
    /\ ignore_protocol_mismatch = FALSE
    /\ moduledir \in [Range(ModuleIds) ->
                         [mode : {"overlay"},
                          fixture : [tree : OverlayTrees, rules : {<<>>}]]]
    /\ can_use_hymofs = FALSE
    /\ module_list = <<>>
    /\ storage = NoStorage
    /\ st = IdleSt
    /\ staging = {}
    /\ plan = EmptyPlan
    /\ kernel_rules = {StaleRule}
    /\ kernel_calls = <<>>
    /\ phases = <<>>
    /\ ex = IdleEx
    /\ mounts = NoMounts
    /\ exec_result = NoResult
    /\ state_file = NoState
    /\ rs = IdleRs
    /\ mm = IdleMm
    /\ rr = IdleRr
    /\ \E present \in SUBSET {3, 4, 5}, roots \in {<<"B", "A">>, <<"B">>, <<"A">>} :
          mo = [phase |-> "called",
                fsys |-> UNION {TreeAt(STAGING, id, moduledir[id].fixture.tree) :
                                   id \in Range(ModuleIds)},
                target_root |-> PathStr(<<"system">>),
                module_roots |-> [i \in 1..Len(roots) |->
                                     PathStr(<<STAGING, roots[i], "system">>)],
                mountinfo |-> SelectSeq(MountInfo,
                                  LAMBDA m : \E k \in {1, 2, 6} \cup present :
                                                 MountInfo[k] = m),
                mount_seq |-> <<>>,
                lowerdir |-> <<>>,
                restored |-> <<>>,
                result |-> FALSE]

\* mount_overlay, lines 307-398: the mirror, the list of child mounts and the
\* overlay on the target, which the kernel accepts or refuses.
MountOverlayRoot ==
    /\ pc = "mount_overlay"
    /\ mo.phase = "called"
    /\ \E ok \in BOOLEAN :
          mo' = [mo EXCEPT
                    !.phase = IF ok THEN "children" ELSE "returned",
                    !.mount_seq = get_child_mounts(mo.mountinfo, mo.target_root),
                    !.lowerdir = IF ok
                                 THEN LowerdirConfig(mo.target_root, mo.module_roots)
                                 ELSE <<>>]
    /\ UNCHANGED <<pc, status, ignore_protocol_mismatch, moduledir,
                   can_use_hymofs, module_list, storage, st, staging, plan,
                   kernel_rules, kernel_calls, phases, ex, mounts, exec_result,
                   state_file, rr, rs, mm>>

\* mount_overlay, lines 400-418: the next child mount is restored.
RestoreChildMount ==
    /\ pc = "mount_overlay"
    /\ mo.phase = "children"
    /\ Len(mo.restored) < Len(mo.mount_seq)
    /\ LET child == mo.mount_seq[Len(mo.restored) + 1]
           relative == SubSeq(child.mount_point, Len(mo.target_root) + 1,
                              Len(child.mount_point))
           source_path == MirrorPath(mo.target_root) \o relative
       IN \E overlay_ok \in BOOLEAN, bind_ok \in BOOLEAN :
             mo' = [mo EXCEPT !.restored =
                       Append(@, mount_overlay_child(mo.fsys, child, relative,
                                     mo.module_roots, source_path, overlay_ok,
                                     bind_ok))]
    /\ UNCHANGED <<pc, status, ignore_protocol_mismatch, moduledir,
                   can_use_hymofs, module_list, storage, st, staging, plan,
                   kernel_rules, kernel_calls, phases, ex, mounts, exec_result,
                   state_file, rr, rs, mm>>

\* mount_overlay, lines 420-459: every child mount was visited; true is
\* returned.
MountOverlayReturn ==
    /\ pc = "mount_overlay"
    /\ mo.phase = "children"
    /\ Len(mo.restored) = Len(mo.mount_seq)
    /\ mo' = [mo EXCEPT !.phase = "returned", !.result = TRUE]
    /\ UNCHANGED <<pc, status, ignore_protocol_mismatch, moduledir,
                   can_use_hymofs, module_list, storage, st, staging, plan,
                   kernel_rules, kernel_calls, phases, ex, mounts, exec_result,
                   state_file, rr, rs, mm>>

NextOverlay == MountOverlayRoot \/ RestoreChildMount \/ MountOverlayReturn

SpecOverlay == InitOverlay /\ [][NextOverlay]_vars

\* The layer paths <layer>/<rel> of a restored child mount, in layer order.
ChildLayerPaths(r) ==
    LET relative == SubSeq(r.mount_point, Len(mo.target_root) + 1,
                           Len(r.mount_point))
    IN [i \in 1..Len(mo.module_roots) |->
           StrToPath(mo.module_roots[i]) \o StrToPath(relative)]

\* C13: when mount_overlay has mounted the overlay on the target and every
\* bind mount it asked for was made, every child mount of the target is
\* restored: by a bind mount of the mirror child when no layer holds the
\* relative path as a directory, when a layer holds it as a non-directory or
\* when the child overlay fails, and otherwise by an overlay of the layers'
\* sub-directories over the mirror child.
C13_ChildMountsRestored ==
    (mo.phase = "returned" /\ mo.result /\
     \A k \in 1..Len(mo.restored) :
         mo.restored[k].how = "bind" => mo.restored[k].mounted) =>
        /\ Len(mo.restored) = Len(mo.mount_seq)
        /\ \A k \in 1..Len(mo.restored) :
               LET r == mo.restored[k]
                   paths == ChildLayerPaths(r)
                   mirror_child == MirrorPath(mo.target_root) \o
                       SubSeq(r.mount_point, Len(mo.target_root) + 1,
                              Len(r.mount_point))
                   dirs == SelectSeq(paths, LAMBDA p : FsIsDirectory(mo.fsys, p))
                   other == \E i \in 1..Len(paths) :
                                /\ FsExists(mo.fsys, paths[i])
                                /\ ~FsIsDirectory(mo.fsys, paths[i])
               IN /\ r.mount_point = mo.mount_seq[k].mount_point
                  /\ r.mounted
                  /\ IF dirs = <<>> \/ other \/ ~r.overlay_ok
                     THEN r.how = "bind" /\ r.lowerdir = <<mirror_child>>
                     ELSE /\ r.how = "overlay"
                          /\ r.lowerdir = [i \in 1..Len(dirs) |-> PathStr(dirs[i])]
                                              \o <<mirror_child>>

\* C13, the overlaid case: a child mount restored by an overlay of two module
\* layers over the mirror child.
C13_ChildOverlaidByTwoLayers ==
    /\ mo.phase = "returned"
    /\ mo.result
    /\ \E k \in 1..Len(mo.restored) :
           mo.restored[k].how = "overlay" /\ Len(mo.restored[k].lowerdir) = 3

\* --------------------------------------------- the state file, two processes
\*
\* One process runs RuntimeState::save while another runs load_runtime_state
\* on the same file.  The file is a sequence of lines; a line of a field is
\* [key, value].

\* state.hpp RuntimeState, as constructed.
DefaultState ==
    [storage_mode |-> "", mount_point |-> "", nuke_active |-> FALSE,
     hymofs_mismatch |-> FALSE, mismatch_message |-> "",
     overlay_module_ids |-> <<>>, magic_module_ids |-> <<>>,
     hymofs_module_ids |-> <<>>, active_mounts |-> <<>>]

\* The states a mount run saves.
SavedStates ==
    {[DefaultState EXCEPT !.storage_mode = "ext4", !.mount_point = "/mnt",
                          !.overlay_module_ids = <<"A", "B">>],
     [DefaultState EXCEPT !.storage_mode = "tmpfs", !.mount_point = "/mnt",
                          !.magic_module_ids = <<"B">>,
                          !.hymofs_module_ids = <<"A">>,
                          !.hymofs_mismatch = TRUE,
                          !.mismatch_message = "kernel too old"],
     [DefaultState EXCEPT !.storage_mode = "tmpfs", !.mount_point = "/mnt",
                          !.hymofs_module_ids = <<"A", "B">>,
                          !.active_mounts = <<"/system">>]}

Line(key, value) == [key |-> key, value |-> value]

\* RuntimeState::save, lines 19-59: the lines in the order they are written.
StateFileLines(state) ==
    << Line("{", ""),
       Line("storage_mode", state.storage_mode),
       Line("mount_point", state.mount_point),
       Line("nuke_active", state.nuke_active),
       Line("hymofs_mismatch", state.hymofs_mismatch),
       Line("mismatch_message", state.mismatch_message),
       Line("overlay_module_ids", state.overlay_module_ids),
       Line("magic_module_ids", state.magic_module_ids),
       Line("hymofs_module_ids", state.hymofs_module_ids),
       Line("active_mounts", state.active_mounts),
       Line("}", "") >>

\* load_runtime_state, lines 99-127: the fields the loop over the lines sets;
\* a mismatch_message line is passed over.
LoadedKeys ==
    {"storage_mode", "mount_point", "nuke_active", "hymofs_mismatch",
     "overlay_module_ids", "magic_module_ids", "hymofs_module_ids",
     "active_mounts"}

RECURSIVE ParseLines(_, _, _)
ParseLines(state, file, i) ==
    IF i > Len(file) THEN state
    ELSE ParseLines(IF file[i].key \in LoadedKeys
                    THEN [state EXCEPT ![file[i].key] = file[i].value]
                    ELSE state,
                    file, i + 1)

InitState ==
    /\ pc = "state_file"
    /\ status = "NotPresent"
    /\ ignore_protocol_mismatch = FALSE
    /\ moduledir = [id \in Range(ModuleIds) |->
                       [mode |-> "none", fixture |-> [tree |-> TreeEmpty,
                                                      rules |-> <<>>]]]
    /\ can_use_hymofs = FALSE
    /\ module_list = <<>>
    /\ storage = NoStorage
    /\ st = IdleSt
    /\ staging = {}
    /\ plan = EmptyPlan
    /\ kernel_rules = {StaleRule}
    /\ kernel_calls = <<>>
    /\ phases = <<>>
    /\ ex = IdleEx
    /\ mounts = NoMounts
    /\ exec_result = NoResult
    /\ state_file = NoState
    /\ mm = IdleMm
    /\ rr = IdleRr
    /\ mo = IdleMo
    /\ \E previous \in SavedStates, current \in SavedStates :
          rs = [writer |-> "called", reader |-> "called",
                previous |-> previous, current |-> current,
                file |-> StateFileLines(previous),
                written |-> 0, seen |-> <<>>, loaded |-> DefaultState]

\* RuntimeState::save, line 13: std::ofstream opens the file and truncates it.
SaveOpen ==
    /\ pc = "state_file"
    /\ rs.writer = "called"
    /\ rs' = [rs EXCEPT !.writer = "open", !.file = <<>>]
    /\ UNCHANGED <<pc, status, ignore_protocol_mismatch, moduledir,
                   can_use_hymofs, module_list, storage, st, staging, plan,
                   kernel_rules, kernel_calls, phases, ex, mounts, exec_result,
                   state_file, rr, mo, mm>>

\* RuntimeState::save, lines 19-61: the stream hands what it buffered to the
\* file, when its buffer is full or when it is closed at the return; where the
\* buffer ends is up to the library, so any number of the next lines goes out.
SaveFlush ==
    /\ pc = "state_file"
    /\ rs.writer = "open"
    /\ LET lines == StateFileLines(rs.current)
       IN \E n \in 1..(Len(lines) - rs.written) :
             rs' = [rs EXCEPT
                       !.file = @ \o SubSeq(lines, rs.written + 1, rs.written + n),
                       !.written = @ + n,
                       !.writer = IF rs.written + n = Len(lines)
                                  THEN "returned" ELSE "open"]
    /\ UNCHANGED <<pc, status, ignore_protocol_mismatch, moduledir,
                   can_use_hymofs, module_list, storage, st, staging, plan,
                   kernel_rules, kernel_calls, phases, ex, mounts, exec_result,
                   state_file, rr, mo, mm>>

\* load_runtime_state in the other process: the file is read as it is now.
LoadRuntimeState ==
    /\ pc = "state_file"
    /\ rs.reader = "called"
    /\ rs' = [rs EXCEPT !.reader = "returned", !.seen = rs.file,
                        !.loaded = ParseLines(DefaultState, rs.file, 1)]
    /\ UNCHANGED <<pc, status, ignore_protocol_mismatch, moduledir,
                   can_use_hymofs, module_list, storage, st, staging, plan,
                   kernel_rules, kernel_calls, phases, ex, mounts, exec_result,
                   state_file, rr, mo, mm>>

NextState == SaveOpen \/ SaveFlush \/ LoadRuntimeState

SpecState == InitState /\ [][NextState]_vars

\* C14: a load_runtime_state that runs while another process saves the state
\* reads the complete previous file or the complete new file, and returns
\* what that file holds.
C14_LoadSeesCompleteFile ==
    rs.reader = "returned" =>
        /\ rs.seen \in {StateFileLines(rs.previous), StateFileLines(rs.current)}
        /\ rs.loaded \in {ParseLines(DefaultState, StateFileLines(rs.previous), 1),
                          ParseLines(DefaultState, StateFileLines(rs.current), 1)}

\* C14, the case: the load ran while the save was between its first and its
\* last write.
C14_LoadDuringSave ==
    /\ rs.reader = "returned"
    /\ rs.writer = "open"
    /\ rs.seen = rs.file
    /\ rs.written > 0

\* ------------------------------------------- update_hymofs_mappings, C15 on

\* update_hymofs_mappings has run in this run and HymoFS was available to it.
EmissionDone == "HymofsEmission" \in Range(phases) /\ is_available(status)

\* The modules without rules that the plan hands to HymoFS.
RulelessHymofsModules ==
    {module_list[i] : i \in {j \in 1..Len(module_list) :
        /\ module_list[j].rules = <<>>
        /\ IsListed(plan.hymofs_module_ids, module_list[j].id)}}

\* The regular files of module id's staged tree below its partition roots.
RegularFilesOf(id) ==
    {e \in staging :
        /\ e.type = "reg"
        /\ Len(e.path) > 3
        /\ IsPrefix(<<STAGING, id>>, e.path)
        /\ e.path[3] \in Range(BUILTIN_PARTITIONS)}

AddRuleCalls ==
    {kernel_calls[i] : i \in {j \in 1..Len(kernel_calls) :
        kernel_calls[j].op = "add_rule"}}

MergeRuleCalls ==
    {kernel_calls[i] : i \in {j \in 1..Len(kernel_calls) :
        kernel_calls[j].op = "add_merge_rule"}}

HideCalls ==
    {kernel_calls[i] : i \in {j \in 1..Len(kernel_calls) :
        kernel_calls[j].op = "hide_path"}}

\* A merge rule was issued for a directory of the staged tree above path.
BelowMergedDirectory(path) ==
    \E c \in MergeRuleCalls :
        Len(c.target) < Len(path) /\ IsPrefix(c.target, path)

\* C15 as stated: for a module without rules that HymoFS handles, with no
\* overlay operation in the plan, every regular file of the staged tree
\* yields the add rule (virtual path, staged path, DT_REG) and the module's
\* root is no magic root.
C15_EveryRegularFileAdded ==
    (EmissionDone /\ plan.overlay_ops = <<>>) =>
        \A m \in RulelessHymofsModules :
            /\ <<STAGING, m.id>> \notin plan.magic_module_paths
            /\ \A e \in RegularFilesOf(m.id) :
                   [op |-> "add_rule",
                    src |-> PathStr(SubSeq(e.path, 3, Len(e.path))),
                    target |-> e.path, type |-> "DT_REG"] \in AddRuleCalls

\* C15, amended: under the same conditions a regular file that lies below no
\* merged directory yields the add rule (resolved virtual path, staged path,
\* DT_REG); a regular file below a directory that exists on the live root is
\* reached through that directory's merge rule and yields no add rule.
C15_RegularFileAddedOrMerged ==
    (EmissionDone /\ plan.overlay_ops = <<>>) =>
        \A m \in RulelessHymofsModules :
            /\ <<STAGING, m.id>> \notin plan.magic_module_paths
            /\ \A e \in RegularFilesOf(m.id) :
                   IF BelowMergedDirectory(e.path)
                   THEN \A c \in AddRuleCalls : c.target # e.path
                   ELSE [op |-> "add_rule",
                         src |-> resolve_path_for_hymofs(
                                     PathStr(SubSeq(e.path, 3, Len(e.path)))),
                         target |-> e.path, type |-> "DT_REG"] \in AddRuleCalls

\* C15, both cases in one run: a module without rules whose file is added and
\* another whose file lies below a merged directory.
C15_AddedAndMerged ==
    /\ EmissionDone
    /\ plan.overlay_ops = <<>>
    /\ \E m \in RulelessHymofsModules : \E e \in RegularFilesOf(m.id) :
           \E c \in AddRuleCalls : c.target = e.path
    /\ \E m \in RulelessHymofsModules : \E e \in RegularFilesOf(m.id) :
           BelowMergedDirectory(e.path)

\* The modules of default mode overlay that carry MixedRules.
MixedModules ==
    {module_list[i] : i \in {j \in 1..Len(module_list) :
        module_list[j].mode = "overlay" /\ module_list[j].rules = MixedRules}}

\* C16: with HymoFS available, for a module of default mode overlay with the
\* rules /system/lib = magic and /system/lib/modules = hymofs, the plan makes
\* the module's system/lib a magic root, lists the module for HymoFS so that
\* what lies under /system/lib/modules is emitted as HymoFS rules, and holds
\* the module's system directory as a layer of the overlay operation /system.
C16_MixedModuleRouted ==
    (EmissionDone /\ status = "Available") =>
        \A m \in MixedModules :
            /\ <<STAGING, m.id, "system", "lib">> \in plan.magic_module_paths
            /\ IsListed(plan.hymofs_module_ids, m.id)
            /\ \E c \in AddRuleCalls \cup MergeRuleCalls :
                   IsPrefix(<<STAGING, m.id, "system", "lib", "modules">>,
                            c.target)
            /\ \E k \in 1..Len(plan.overlay_ops) :
                   /\ plan.overlay_ops[k].target = PathStr(<<"system">>)
                   /\ \E i \in 1..Len(plan.overlay_ops[k].lowerdirs) :
                          plan.overlay_ops[k].lowerdirs[i] =
                              <<STAGING, m.id, "system">>

\* C16, the case: the rules of such a module were emitted; its magic root and
\* its HymoFS rule are there.
C16_MixedModuleEmitted ==
    /\ EmissionDone
    /\ status = "Available"
    /\ \E m \in MixedModules :
           /\ <<STAGING, m.id, "system", "lib">> \in plan.magic_module_paths
           /\ \E c \in AddRuleCalls :
                  c.target = <<STAGING, m.id, "system", "lib", "modules", "k">>

\* The whiteouts of module m's staged tree that C17 speaks of: effective mode
\* hymofs, virtual path below no overlay target.
HymofsWhiteoutsOf(m) ==
    {e \in staging :
        /\ e.type = "chr0"
        /\ Len(e.path) > 3
        /\ IsPrefix(<<STAGING, m.id>>, e.path)
        /\ e.path[3] \in Range(BUILTIN_PARTITIONS)
        /\ EmitterResolve(m.rules, PathStr(SubSeq(e.path, 3, Len(e.path))),
                          EmitterDefaultMode(m.mode)).mode \in {"hymofs", "auto"}
        /\ CoveringOp(plan.overlay_ops,
                      PathStr(SubSeq(e.path, 3, Len(e.path)))) = 0}

HymofsModules ==
    {module_list[i] : i \in {j \in 1..Len(module_list) :
        IsListed(plan.hymofs_module_ids, module_list[j].id)}}

\* C17 as stated: every such whiteout yields a hide_path on its virtual path,
\* whatever the live root holds at the path or at its parent.
C17_EveryWhiteoutHidden ==
    EmissionDone =>
        \A m \in HymofsModules : \A e \in HymofsWhiteoutsOf(m) :
            \E c \in HideCalls :
                c.src = PathStr(SubSeq(e.path, 3, Len(e.path)))

\* C17, amended: every such whiteout that lies below no merged directory
\* yields a hide_path on its resolved virtual path, whether or not the live
\* root holds the path; a whiteout below a staged directory whose live path
\* exists as a directory is not visited and yields no hide_path.
C17_WhiteoutHiddenUnlessMerged ==
    EmissionDone =>
        \A m \in HymofsModules : \A e \in HymofsWhiteoutsOf(m) :
            LET path_str == PathStr(SubSeq(e.path, 3, Len(e.path)))
            IN IF BelowMergedDirectory(e.path)
               THEN \A c \in HideCalls : c.src # path_str
               ELSE \E c \in HideCalls :
                        c.src = resolve_path_for_hymofs(path_str)

\* C17, the case: a whiteout whose parent the live root lacks was hidden.
C17_WhiteoutWithoutLiveParentHidden ==
    /\ EmissionDone
    /\ \E m \in HymofsModules : \E e \in HymofsWhiteoutsOf(m) :
           /\ ~LiveExists(Front(SubSeq(e.path, 3, Len(e.path))))
           /\ \E c \in HideCalls :
                  c.src = PathStr(SubSeq(e.path, 3, Len(e.path)))

\* ------------------------------------------------ the magic mount node tree
\*
\* One call of collect_all_modules over the module roots of the magic queue.
\* The node tree is the set of its nodes; a node is [path, file_type,
\* module_path] with path counted from the synthetic root.

MagicTrees ==
    {TreeHosts, TreeLib, TreeEtcFile, TreeWhiteout, TreeSysVendor, TreeVendor,
     TreeEmpty}

\* magic.cpp get_file_type
get_file_type(e) ==
    IF e.type = "chr0" THEN "Whiteout"
    ELSE IF e.type = "dir" THEN "Directory"
    ELSE IF e.type \in SymlinkTypes THEN "Symlink"
    ELSE "RegularFile"

\* magic.cpp collect_module_files, lines 70-86, for one entry of module_dir:
\* a fresh child node is filled from the entry's own directory and then
\* assigned to node.children[name], which drops the node that was there with
\* everything below it.
CollectEntry(tree, fsys, node_path, entry) ==
    LET child_path == node_path \o <<Last(entry.path)>>
        below == {x \in fsys : IsPrefix(entry.path, x.path)}
    IN {n \in tree : ~IsPrefix(child_path, n.path)} \cup
       {[path |-> child_path \o SubSeq(x.path, Len(entry.path) + 1, Len(x.path)),
         file_type |-> get_file_type(x), module_path |-> x.path] : x \in below}

\* magic.cpp collect_module_files: the entries of module_dir, one after the
\* other (the result does not depend on their order: the names differ).
RECURSIVE CollectEntries(_, _, _, _)
CollectEntries(tree, fsys, node_path, entries) ==
    IF entries = {} THEN tree
    ELSE LET entry == CHOOSE x \in entries : TRUE
         IN CollectEntries(CollectEntry(tree, fsys, node_path, entry), fsys,
                           node_path, entries \ {entry})

collect_module_files(tree, fsys, node_path, module_dir) ==
    CollectEntries(tree, fsys, node_path,
                   {x \in fsys : Len(x.path) = Len(module_dir) + 1
                                 /\ IsPrefix(module_dir, x.path)})

\* The value collect_module_files returns: a entry that is no directory lies
\* below module_dir (no directory of the trees is marked replace).
CollectedFile(fsys, module_dir) ==
    /\ FsIsDirectory(fsys, module_dir)
    /\ \E x \in FsBelow(fsys, module_dir) : x.type # "dir"

\* collect_all_modules, lines 119-152: the partitions that move from below
\* system to the root, with require_symlink.
MAGIC_BUILTIN_PARTS ==
    <<[partition |-> "vendor", require_symlink |-> TRUE],
      [partition |-> "system_ext", require_symlink |-> TRUE],
      [partition |-> "product", require_symlink |-> TRUE],
      [partition |-> "odm", require_symlink |-> FALSE]>>

MovesToRoot(partition) ==
    \E i \in 1..Len(MAGIC_BUILTIN_PARTS) :
        /\ MAGIC_BUILTIN_PARTS[i].partition = partition
        /\ LiveIsDirectory(<<partition>>)
        /\ \/ ~MAGIC_BUILTIN_PARTS[i].require_symlink
           \/ LiveIsSymlink(<<"system", partition>>)

\* Where the node of the path below system ends up.
NodePath(path) ==
    IF Len(path) > 1 /\ path[1] = "system" /\ MovesToRoot(path[2])
    THEN SubSeq(path, 2, Len(path))
    ELSE path

InitMagic ==
    /\ pc = "magic_tree"
    /\ status = "NotPresent"
    /\ ignore_protocol_mismatch = FALSE
    /\ moduledir \in [Range(ModuleIds) ->
                         [mode : {"magic"},
                          fixture : [tree : MagicTrees, rules : {<<>>}]]]
    /\ can_use_hymofs = FALSE
    /\ module_list = <<>>
    /\ storage = NoStorage
    /\ st = IdleSt
    /\ staging = {}
    /\ plan = EmptyPlan
    /\ kernel_rules = {StaleRule}
    /\ kernel_calls = <<>>
    /\ phases = <<>>
    /\ ex = IdleEx
    /\ mounts = NoMounts
    /\ exec_result = NoResult
    /\ state_file = NoState
    /\ rr = IdleRr
    /\ mo = IdleMo
    /\ rs = IdleRs
    /\ \E ids \in {<<"A", "B">>, <<"A">>, <<"B">>} :
          mm = [phase |-> "collecting",
                fsys |-> UNION {TreeAt(STAGING, id, moduledir[id].fixture.tree) :
                                   id \in Range(ModuleIds)},
                content_paths |-> [i \in 1..Len(ids) |-> <<STAGING, ids[i]>>],
                next |-> 1,
                has_file |-> FALSE,
                tree |-> {[path |-> <<"system">>, file_type |-> "Directory",
                           module_path |-> <<"system">>]},
                built |-> FALSE]

\* collect_all_modules, lines 103-112: the next module root.
CollectModule ==
    /\ pc = "magic_tree"
    /\ mm.phase = "collecting"
    /\ mm.next <= Len(mm.content_paths)
    /\ LET module_system == mm.content_paths[mm.next] \o <<"system">>
       IN mm' = IF ~FsIsDirectory(mm.fsys, module_system)
                THEN [mm EXCEPT !.next = @ + 1]
                ELSE [mm EXCEPT
                         !.next = @ + 1,
                         !.has_file = @ \/ CollectedFile(mm.fsys, module_system),
                         !.tree = collect_module_files(@, mm.fsys, <<"system">>,
                                                       module_system)]
    /\ UNCHANGED <<pc, status, ignore_protocol_mismatch, moduledir,
                   can_use_hymofs, module_list, storage, st, staging, plan,
                   kernel_rules, kernel_calls, phases, ex, mounts, exec_result,
                   state_file, rr, mo, rs>>

\* collect_all_modules, lines 114-152: nothing to mount gives no tree;
\* otherwise the partitions with a symlink below /system move to the root.
CollectReturn ==
    /\ pc = "magic_tree"
    /\ mm.phase = "collecting"
    /\ mm.next > Len(mm.content_paths)
    /\ mm' = IF ~mm.has_file
             THEN [mm EXCEPT !.phase = "returned", !.tree = {}]
             ELSE [mm EXCEPT
                      !.phase = "returned",
                      !.built = TRUE,
                      !.tree = {[n EXCEPT !.path = NodePath(n.path)] : n \in @}]
    /\ UNCHANGED <<pc, status, ignore_protocol_mismatch, moduledir,
                   can_use_hymofs, module_list, storage, st, staging, plan,
                   kernel_rules, kernel_calls, phases, ex, mounts, exec_result,
                   state_file, rr, mo, rs>>

NextMagic == CollectModule \/ CollectReturn

SpecMagic == InitMagic /\ [][NextMagic]_vars

\* What the module root holds below its system directory.
ProvidedBy(root) ==
    {x \in mm.fsys : Len(x.path) > 3 /\ IsPrefix(root \o <<"system">>, x.path)}

\* C18: in the tree collect_all_modules returns, every entry a module root
\* of the set holds below system/ has its node, unless another module root
\* of the set holds an entry at exactly the same path (or a non-directory in
\* the place of a directory above it); this includes the entries of a
\* directory that two modules both hold.
C18_TreeIsSuperposition ==
    (mm.phase = "returned" /\ mm.built) =>
        \A i \in 1..Len(mm.content_paths) :
            \A x \in ProvidedBy(mm.content_paths[i]) :
                \/ \E n \in mm.tree :
                       /\ n.path = NodePath(SubSeq(x.path, 3, Len(x.path)))
                       /\ n.module_path = x.path
                       /\ n.file_type = get_file_type(x)
                \/ \E j \in 1..Len(mm.content_paths) :
                       /\ j # i
                       /\ \E y \in ProvidedBy(mm.content_paths[j]) :
                              LET rel_x == SubSeq(x.path, 3, Len(x.path))
                                  rel_y == SubSeq(y.path, 3, Len(y.path))
                              IN \/ rel_y = rel_x
                                 \/ /\ y.type # "dir"
                                    /\ IsPrefix(rel_y, rel_x)

\* C18, the case: a tree built from two module roots that hold entries below
\* system/, with nodes of both in it.
C18_TwoModulesInTree ==
    /\ mm.phase = "returned"
    /\ mm.built
    /\ Len(mm.content_paths) = 2
    /\ \A i \in 1..2 :
           \E n \in mm.tree :
               Len(n.module_path) > 3 /\ IsPrefix(mm.content_paths[i], n.module_path)

\* The place of a rule call in the order adds, merges, hides.
CallRank(call) ==
    IF call.op = "add_rule" THEN 1
    ELSE IF call.op = "add_merge_rule" THEN 2
    ELSE IF call.op = "hide_path" THEN 3
    ELSE 0

\* The position in the inventory of the module a rule's target belongs to;
\* the first module of the inventory has the highest priority.
InventoryPosition(call) ==
    CHOOSE i \in 1..Len(module_list) : module_list[i].id = OwnerOf(call.target)

\* C19: among the kernel calls of update_hymofs_mappings every add rule
\* precedes every merge rule and every merge rule precedes every hide rule;
\* of two add rules, and of two merge rules, the one of the module that comes
\* later in the inventory (the lower priority) is issued first.
C19_AddsMergesHidesInOrder ==
    EmissionDone =>
        \A i \in 1..Len(kernel_calls) : \A j \in (i + 1)..Len(kernel_calls) :
            LET a == kernel_calls[i]
                b == kernel_calls[j]
            IN (CallRank(a) > 0 /\ CallRank(b) > 0) =>
                   /\ CallRank(a) <= CallRank(b)
                   /\ (CallRank(a) = CallRank(b) /\ CallRank(a) < 3) =>
                          InventoryPosition(a) >= InventoryPosition(b)

\* C19, the case: a run in which two modules each gave an add rule and a
\* merge rule and a hide rule was issued.
C19_TwoModulesAllKinds ==
    /\ EmissionDone
    /\ HideCalls # {}
    /\ \A id \in Range(ModuleIds) :
           /\ \E c \in AddRuleCalls : OwnerOf(c.target) = id
           /\ \E c \in MergeRuleCalls : OwnerOf(c.target) = id

\* The directories of module m's staged tree the emitter meets: below a
\* partition root, of effective mode hymofs, covered by no overlay target and
\* below no directory it has merged.
MetDirectoriesOf(m) ==
    {e \in staging :
        /\ e.type = "dir"
        /\ Len(e.path) > 3
        /\ IsPrefix(<<STAGING, m.id>>, e.path)
        /\ e.path[3] \in Range(BUILTIN_PARTITIONS)
        /\ EmitterResolve(m.rules, PathStr(SubSeq(e.path, 3, Len(e.path))),
                          EmitterDefaultMode(m.mode)).mode \in {"hymofs", "auto"}
        /\ CoveringOp(plan.overlay_ops,
                      PathStr(SubSeq(e.path, 3, Len(e.path)))) = 0
        /\ ~BelowMergedDirectory(e.path)}

\* The live-root path of a staged directory exists and is a directory.
LiveDirectoryOf(e) ==
    LET final_virtual_path ==
            resolve_path_for_hymofs(PathStr(SubSeq(e.path, 3, Len(e.path))))
    IN /\ LiveExists(StrToPath(final_virtual_path))
       /\ LiveIsDirectory(StrToPath(final_virtual_path))

\* How many merge rule calls name the staged directory as their target.
MergeCallCount(path) ==
    Cardinality({i \in 1..Len(kernel_calls) :
        kernel_calls[i].op = "add_merge_rule" /\ kernel_calls[i].target = path})

\* C20: a staged directory the emitter meets whose live-root path exists as a
\* directory yields exactly one merge rule and nothing from below it (no add
\* or merge rule with a target beneath it, no hide rule for a whiteout
\* beneath it); a directory whose live-root path does not exist as a
\* directory yields no merge rule and is descended into (its regular files
\* and whiteouts of effective mode hymofs yield their rules).
C20_MergeOnceAndNoDescent ==
    EmissionDone =>
        \A m \in HymofsModules : \A d \in MetDirectoriesOf(m) :
            IF LiveDirectoryOf(d)
            THEN /\ MergeCallCount(d.path) = 1
                 /\ \A c \in AddRuleCalls \cup MergeRuleCalls :
                        ~(Len(c.target) > Len(d.path) /\ IsPrefix(d.path, c.target))
                 /\ \A x \in FsBelow(staging, d.path) :
                        x.type = "chr0" =>
                            \A c \in HideCalls :
                                c.src # PathStr(SubSeq(x.path, 3, Len(x.path)))
            ELSE /\ MergeCallCount(d.path) = 0
                 /\ \A x \in RegularFilesOf(m.id) \cup HymofsWhiteoutsOf(m) :
                        (Front(x.path) = d.path /\
                         EmitterResolve(m.rules,
                             PathStr(SubSeq(x.path, 3, Len(x.path))),
                             EmitterDefaultMode(m.mode)).mode
                                 \in {"hymofs", "auto"}) =>
                            \/ \E c \in AddRuleCalls : c.target = x.path
                            \/ \E c \in HideCalls :
                                   c.src = resolve_path_for_hymofs(
                                       PathStr(SubSeq(x.path, 3, Len(x.path))))

\* C20, both cases in one run: a merged directory with entries beneath it and
\* a directory the live root lacks whose entry got its rule.
C20_MergedAndDescended ==
    /\ EmissionDone
    /\ \E m \in HymofsModules : \E d \in MetDirectoriesOf(m) :
           /\ LiveDirectoryOf(d)
           /\ FsBelow(staging, d.path) # {}
           /\ MergeCallCount(d.path) = 1
    /\ \E m \in HymofsModules : \E d \in MetDirectoriesOf(m) :
           /\ ~LiveDirectoryOf(d)
           /\ \E c \in AddRuleCalls : Front(c.target) = d.path

\* ------------------------------------------------- a run over symlinks, C21
\*
\* The same command over modules that hold symlinks at system/bin (a
\* directory of the live root) and at system/lib (which the live root lacks),
\* started with an empty image or with an image in which an earlier run left
\* module A's link system/bin: the link was dangling when it was copied and
\* resolves to a directory now.

TreeLinks(kind) ==
    {Entry(<<"system">>, "dir"), Entry(<<"system", "bin">>, kind),
     Entry(<<"system", "lib">>, "lnk")}

LinksModuleDir ==
    [mode : {"auto", "overlay"},
     fixture : {[tree |-> TreeLinks("lnk"), rules |-> <<>>],
                [tree |-> TreeLinks("lnkreg"), rules |-> <<>>],
                [tree |-> TreeLinks("lnkdir"), rules |-> <<>>],
                [tree |-> TreeHosts, rules |-> <<>>],
                [tree |-> TreeHosts,
                 rules |-> <<Rule(PathStr(<<"system", "etc">>), "overlay")>>]}]

LinkStagings == {{}, TreeAt(STAGING, "A", TreeLinks("lnkdir"))}

InitLinks ==
    /\ pc = "start"
    /\ status \in Statuses
    /\ ignore_protocol_mismatch \in BOOLEAN
    /\ moduledir \in [Range(ModuleIds) -> LinksModuleDir]
    /\ can_use_hymofs = FALSE
    /\ module_list = <<>>
    /\ storage = NoStorage
    /\ st = IdleSt
    /\ staging \in LinkStagings
    /\ plan = EmptyPlan
    /\ kernel_rules = {StaleRule}
    /\ kernel_calls = <<>>
    /\ phases = <<>>
    /\ ex = IdleEx
    /\ mounts = NoMounts
    /\ exec_result = NoResult
    /\ state_file = NoState
    /\ mo = IdleMo
    /\ rs = IdleRs
    /\ mm = IdleMm
    /\ rr = IdleRr

SpecLinks == InitLinks /\ [][Next]_vars

\* The symlinks of module m's staged tree whose virtual path is a directory
\* of the live root.
SymlinksOverLiveDirectory(m) ==
    {e \in staging :
        /\ e.type \in SymlinkTypes
        /\ Len(e.path) > 3
        /\ IsPrefix(<<STAGING, m.id>>, e.path)
        /\ e.path[3] \in Range(BUILTIN_PARTITIONS)
        /\ LiveIsDirectory(SubSeq(e.path, 3, Len(e.path)))}

\* C21: after the emission no add rule and no merge rule has as its backing
\* path a staged symlink whose virtual path is a directory of the live root.
C21_NoRuleBackedBySymlinkOverDirectory ==
    EmissionDone =>
        \A m \in HymofsModules : \A e \in SymlinksOverLiveDirectory(m) :
            \A c \in AddRuleCalls \cup MergeRuleCalls : c.target # e.path

\* C21, the case: the emitter met a symlink over a live directory and a
\* symlink over a path the live root lacks; the second one got its add rule
\* and the first one no add rule.
C21_SymlinkOverDirectoryMet ==
    /\ EmissionDone
    /\ \E m \in HymofsModules : \E e \in SymlinksOverLiveDirectory(m) :
           /\ \A c \in AddRuleCalls : c.target # e.path
           /\ \E c \in AddRuleCalls :
                  /\ c.target = <<STAGING, m.id, "system", "lib">>
                  /\ c.type = "DT_LNK"

\* ------------------------------------------------------ execute_plan, C22 on

\* The layers of the operations whose mount_overlay failed.
FailedLayers ==
    UNION {Range(op.lowerdirs) : op \in FailedOps}

\* The roots the fallback demotes: the directory above each layer of a
\* failed operation, which for a partition layer <root>/<id>/<partition> is
\* the module's root.
DemotedRoots == {Front(l) : l \in {x \in FailedLayers : Len(x) > 1}}

ResolvedVirtualPath(e) ==
    resolve_path_for_hymofs(PathStr(SubSeq(e.path, 3, Len(e.path))))

\* The kernel call stems from module m: an add or merge rule is backed by a
\* path of m's staged tree, a hide rule is that of a whiteout of m or of a
\* hide rule of m's rule file.
CallFrom(call, m) ==
    IF call.op \in {"add_rule", "add_merge_rule"}
    THEN IsPrefix(<<STAGING, m.id>>, call.target)
    ELSE /\ call.op = "hide_path"
         /\ \/ \E e \in HymofsWhiteoutsOf(m) :
                  ~BelowMergedDirectory(e.path) /\ ResolvedVirtualPath(e) = call.src
            \/ \E i \in 1..Len(m.rules) :
                  /\ m.rules[i].mode = "hide"
                  /\ resolve_path_for_hymofs(m.rules[i].path) = call.src

\* The positions of the rule calls of this run on the virtual path src.
CallsOn(src) ==
    {i \in 1..Len(kernel_calls) :
        /\ kernel_calls[i].op \in {"add_rule", "add_merge_rule", "hide_path"}
        /\ kernel_calls[i].src = src}

\* C23: when two modules handled by HymoFS both get a kernel call on one
\* virtual path, the last call on that path stems from the module with the
\* greater id; in particular no hide_path of the lower module follows an
\* add rule of the higher one on the same path.
C23_LastCallFromHighestPriority ==
    EmissionDone =>
        \A h, l \in HymofsModules :
            IdGreater(h.id, l.id) =>
                \A i, j \in 1..Len(kernel_calls) :
                    (/\ i \in CallsOn(kernel_calls[j].src)
                     /\ j \in CallsOn(kernel_calls[j].src)
                     /\ CallFrom(kernel_calls[i], h)
                     /\ CallFrom(kernel_calls[j], l)) =>
                        \E k \in CallsOn(kernel_calls[j].src) :
                            k > j /\ CallFrom(kernel_calls[k], h)

\* C23, the case where the order is the stated one: both modules got a call
\* on one path and the call of the module with the greater id came last.
C23_TwoModulesOnePath ==
    /\ EmissionDone
    /\ \E h, l \in HymofsModules :
           /\ IdGreater(h.id, l.id)
           /\ \E i, j \in 1..Len(kernel_calls) :
                  /\ i < j
                  /\ i \in CallsOn(kernel_calls[j].src)
                  /\ j \in CallsOn(kernel_calls[j].src)
                  /\ CallFrom(kernel_calls[i], l)
                  /\ CallFrom(kernel_calls[j], h)
                  /\ \A k \in CallsOn(kernel_calls[j].src) : k <= j

\* ----------------------------------------- the ids execute_plan returns, C24

\* A module root: <storage>/<id> of a module of the inventory, or that
\* module's root in the segregated copy.
IsModuleRoot(root) ==
    \/ /\ Len(root) = 2
       /\ root[1] = storage.mount_point[1]
       /\ root[2] \in InventoryIds
    \/ /\ Len(root) = 3
       /\ root[1] = STAGING
       /\ root[2] = OVERLAY_STAGING
       /\ root[3] \in InventoryIds

\* C24: every id execute_plan returns as overlay or magic module id, and
\* every such id in the saved state, is the id of a module of the inventory,
\* and every path handed to mount_partitions is a module root.
C24_ReturnedIdsAreModuleIds ==
    ExecuteReturned =>
        /\ exec_result.overlay_module_ids \subseteq InventoryIds
        /\ exec_result.magic_module_ids \subseteq InventoryIds
        /\ \A n \in 1..Len(mounts.magic) :
               \A root \in Range(mounts.magic[n]) : IsModuleRoot(root)
        /\ state_file.saved =>
               /\ state_file.overlay_module_ids \subseteq InventoryIds
               /\ state_file.magic_module_ids \subseteq InventoryIds

\* C24, the case of whole modules: the magic pass was given a root of the
\* plan and a root demoted by a failed operation, each a module root, and the
\* ids returned and saved are those of the two modules.
C24_PlanRootAndDemotedRoot ==
    /\ pc = "done"
    /\ Len(mounts.magic) = 1
    /\ plan.magic_module_paths # {}
    /\ DemotedRoots # {}
    /\ DemotedRoots \cap plan.magic_module_paths = {}
    /\ \A root \in Range(mounts.magic[1]) : IsModuleRoot(root)
    /\ state_file.magic_module_ids = InventoryIds
    /\ Cardinality(InventoryIds) = 2

\* ------------------------------------------- the plan's overlay ids, C25

\* The operations that mount_overlay mounted, as they were handed to it.
MountedOps ==
    {mounts.attempted[n].op : n \in {m \in 1..Len(mounts.attempted) :
                                        mounts.attempted[m].ok}}

\* C25: the module that owns a layer of a mounted overlay operation is listed
\* in the plan's overlay_module_ids, whether generate_plan made the layer or
\* update_hymofs_mappings appended it.
C25_LayerOwnersAreOverlayIds ==
    \A op \in MountedOps : \A l \in Range(op.lowerdirs) :
        OwnerOf(l) \in plan.overlay_module_ids

\* C25, the case of the planner's layers: an operation was mounted over the
\* layers of two modules, both listed.
C25_TwoOwnersListed ==
    \E op \in MountedOps :
        /\ {OwnerOf(l) : l \in Range(op.lowerdirs)} = {"A", "B"}
        /\ plan.overlay_module_ids = {"A", "B"}

\* ----------------------------------- one backend per demoted module, C26

\* The modules with a directory among the paths handed to mount_partitions.
MagicMountedOwners ==
    UNION {{OwnerOf(root) : root \in Range(mounts.magic[n])} :
              n \in 1..Len(mounts.magic)}

\* The modules that own a layer of a mounted overlay operation.
OverlayMountedOwners ==
    UNION {{OwnerOf(l) : l \in Range(op.lowerdirs)} : op \in MountedOps}

\* C26: after execute_plan no module has a layer in a mounted overlay
\* operation and a directory handed to Magic Mount as well, and the id of a
\* module without rules is in at most one of the returned id sets.
C26_OverlayOrMagicNotBoth ==
    ExecuteReturned =>
        /\ MagicMountedOwners \cap OverlayMountedOwners = {}
        /\ \A i \in 1..Len(module_list) :
               module_list[i].rules = <<>> =>
                   ~(/\ module_list[i].id \in exec_result.overlay_module_ids
                     /\ module_list[i].id \in exec_result.magic_module_ids)

\* C26, the case that keeps the backends apart: one operation failed and its
\* module went to Magic Mount, another operation was mounted over the layer
\* of the other module.
C26_DemotedBesideMounted ==
    /\ ExecuteReturned
    /\ FailedOps # {}
    /\ MagicMountedOwners = {"A"}
    /\ OverlayMountedOwners = {"B"}
    /\ exec_result.overlay_module_ids = {"B"}
    /\ exec_result.magic_module_ids = {"A"}

\* ------------------------------------- the HymoFS ids of the saved state, C27

\* The regular files of module m's staged tree that the emitter is to add:
\* effective mode hymofs, virtual path below no overlay target and below no
\* merged directory.
FilesToAdd(m) ==
    {e \in staging :
        /\ e.type = "reg"
        /\ Len(e.path) > 3
        /\ IsPrefix(<<STAGING, m.id>>, e.path)
        /\ e.path[3] \in Range(BUILTIN_PARTITIONS)
        /\ EmitterResolve(m.rules, PathStr(SubSeq(e.path, 3, Len(e.path))),
                          EmitterDefaultMode(m.mode)).mode \in {"hymofs", "auto"}
        /\ CoveringOp(plan.overlay_ops,
                      PathStr(SubSeq(e.path, 3, Len(e.path)))) = 0
        /\ ~BelowMergedDirectory(e.path)}

\* The modules the saved state lists as handled by HymoFS.
SavedHymofsModules ==
    {module_list[i] : i \in {j \in 1..Len(module_list) :
        IsListed(state_file.hymofs_module_ids, module_list[j].id)}}

\* C27: when the run has saved its state, for every module the state lists
\* in hymofs_module_ids the rule table was cleared in this run and the
\* module's files were submitted: each regular file to add has its add rule.
C27_RecordedHymofsModulesEmitted ==
    (pc = "done" /\ state_file.saved) =>
        \A m \in SavedHymofsModules :
            /\ ClearCall \in Range(kernel_calls)
            /\ \A e \in FilesToAdd(m) :
                   \E c \in AddRuleCalls : c.target = e.path

\* C27, the case of an available HymoFS: the state lists a module whose file
\* was added after the table was cleared.
C27_RecordedAndEmitted ==
    /\ pc = "done"
    /\ state_file.saved
    /\ status = "Available"
    /\ ClearCall \in Range(kernel_calls)
    /\ \E m \in SavedHymofsModules : \E e \in FilesToAdd(m) :
           \E c \in AddRuleCalls : c.target = e.path

\* ------------------------------- the state file under the CLI commands, C28
\*
\* A mount run has saved its state; one CLI command then loads the state,
\* changes hymofs_module_ids and saves it again.

\* The states a mount run saves.
RunStates ==
    {[DefaultState EXCEPT !.storage_mode = sm, !.mount_point = "/mnt",
                          !.nuke_active = nuke,
                          !.hymofs_mismatch = (msg # ""),
                          !.mismatch_message = msg,
                          !.overlay_module_ids = ov,
                          !.hymofs_module_ids = hy,
                          !.active_mounts = IF hy = <<>> THEN <<>> ELSE <<"system">>] :
        sm \in {"tmpfs", "ext4"}, nuke \in BOOLEAN,
        msg \in {"", "kernel too old"},
        ov \in {<<>>, <<"B">>}, hy \in {<<>>, <<"A">>, <<"A", "B">>}}

\* The module ids given to the commands.
CommandIds == {"A", "B", "C"}

\* The fields RuntimeState::save writes.
PersistedFields ==
    {"storage_mode", "mount_point", "nuke_active", "hymofs_mismatch",
     "mismatch_message", "overlay_module_ids", "magic_module_ids",
     "hymofs_module_ids", "active_mounts"}

InitCli ==
    /\ pc = "cli"
    /\ status = "Available"
    /\ ignore_protocol_mismatch = FALSE
    /\ moduledir = [id \in Range(ModuleIds) |->
                       [mode |-> "none", fixture |-> [tree |-> TreeEmpty,
                                                      rules |-> <<>>]]]
    /\ can_use_hymofs = FALSE
    /\ module_list = <<>>
    /\ storage = NoStorage
    /\ st = IdleSt
    /\ staging = {}
    /\ plan = EmptyPlan
    /\ kernel_rules = {StaleRule}
    /\ kernel_calls = <<>>
    /\ phases = <<>>
    /\ ex = IdleEx
    /\ mounts = NoMounts
    /\ exec_result = NoResult
    /\ state_file = NoState
    /\ mm = IdleMm
    /\ rr = IdleRr
    /\ mo = IdleMo
    /\ \E run \in RunStates :
          rs = [phase |-> "saved", run |-> run, file |-> StateFileLines(run),
                loaded |-> DefaultState, command |-> "", saved_again |-> FALSE]

\* std::remove with erase on hymofs_module_ids.
RemoveId(ids, id) == SelectSeq(ids, LAMBDA x : x # id)

\* What a command leaves: the state it loaded, and the file written again
\* when the command calls save.
CliReturn(command, loaded, changed, saves) ==
    rs' = [rs EXCEPT !.phase = "done", !.command = command,
                     !.loaded = loaded,
                     !.file = IF saves THEN StateFileLines(changed) ELSE @,
                     !.saved_again = saves]

\* main.cpp, lines 442-455 (module add) and 534-546 (module hot-mount): when
\* rules were added for a partition, the state is loaded and the id is
\* appended and saved unless it is listed.
CliModuleAdd ==
    /\ pc = "cli"
    /\ rs.phase = "saved"
    /\ \E id \in CommandIds, success \in BOOLEAN :
          LET loaded == ParseLines(DefaultState, rs.file, 1)
              changed == [loaded EXCEPT !.hymofs_module_ids = Append(@, id)]
          IN CliReturn("add", IF success THEN loaded ELSE DefaultState,
                       changed,
                       success /\ ~IsListed(loaded.hymofs_module_ids, id))
    /\ UNCHANGED <<pc, status, ignore_protocol_mismatch, moduledir,
                   can_use_hymofs, module_list, storage, st, staging, plan,
                   kernel_rules, kernel_calls, phases, ex, mounts, exec_result,
                   state_file, rr, mo, mm>>

\* main.cpp, lines 475-482 (module delete) and 577-584 (module hot-unmount):
\* when rules were removed for a partition, the state is loaded and the id is
\* erased and saved when it was listed.
CliModuleDelete ==
    /\ pc = "cli"
    /\ rs.phase = "saved"
    /\ \E id \in CommandIds, success \in BOOLEAN :
          LET loaded == ParseLines(DefaultState, rs.file, 1)
              changed == [loaded EXCEPT !.hymofs_module_ids = RemoveId(@, id)]
          IN CliReturn("delete", IF success THEN loaded ELSE DefaultState,
                       changed,
                       success /\ IsListed(loaded.hymofs_module_ids, id))
    /\ UNCHANGED <<pc, status, ignore_protocol_mismatch, moduledir,
                   can_use_hymofs, module_list, storage, st, staging, plan,
                   kernel_rules, kernel_calls, phases, ex, mounts, exec_result,
                   state_file, rr, mo, mm>>

\* main.cpp, lines 1106-1110 (clear): when the rules were cleared, the state
\* is loaded, the ids are cleared and the state is saved.
CliClear ==
    /\ pc = "cli"
    /\ rs.phase = "saved"
    /\ \E success \in BOOLEAN :
          LET loaded == ParseLines(DefaultState, rs.file, 1)
              changed == [loaded EXCEPT !.hymofs_module_ids = <<>>]
          IN CliReturn("clear", IF success THEN loaded ELSE DefaultState,
                       changed, success)
    /\ UNCHANGED <<pc, status, ignore_protocol_mismatch, moduledir,
                   can_use_hymofs, module_list, storage, st, staging, plan,
                   kernel_rules, kernel_calls, phases, ex, mounts, exec_result,
                   state_file, rr, mo, mm>>

NextCli == CliModuleAdd \/ CliModuleDelete \/ CliClear

SpecCli == InitCli /\ [][NextCli]_vars

\* C28: a command that saved the state again loaded every persisted field as
\* the mount run had saved it, and the file it wrote holds every field other
\* than hymofs_module_ids as the mount run had saved it.
C28_CommandKeepsOtherFields ==
    (rs.phase = "done" /\ rs.saved_again) =>
        /\ \A f \in PersistedFields : rs.loaded[f] = rs.run[f]
        /\ \A i \in 1..Len(rs.file) :
               (rs.file[i].key \in PersistedFields \ {"hymofs_module_ids"}) =>
                   rs.file[i] = Line(rs.file[i].key, rs.run[rs.file[i].key])

\* C28, the case of a run without a protocol mismatch: a command changed
\* hymofs_module_ids and the file holds every other field as before.
C28_IdsChangedRestKept ==
    /\ rs.phase = "done"
    /\ rs.saved_again
    /\ rs.run.mismatch_message = ""
    /\ rs.run.nuke_active
    /\ rs.run.overlay_module_ids # <<>>
    /\ \A i \in 1..Len(rs.file) :
           IF rs.file[i].key = "hymofs_module_ids"
           THEN rs.file[i].value # rs.run.hymofs_module_ids
           ELSE rs.file[i] = StateFileLines(rs.run)[i]

\* ----------------------------- module hot-unmount and module delete, C29
\*
\* After the mount command has ended, a CLI command removes the rules of one
\* module and takes its id out of the state file.

\* HymoFS::remove_rules_from_directory(target_base, module_dir), lines
\* 201-229: false when module_dir is no directory.
RemoveRulesReturn(fsys, module_dir) == FsIsDirectory(fsys, module_dir)

\* Lines 206-222: a delete_rule on target_base / rel for each regular file,
\* symlink and whiteout the walk of module_dir meets; a directory gets none.
RemoveRulesCalls(fsys, id, part) ==
    LET met == SelectSeq(Walk(fsys, <<MODULEDIR, id>>, part),
                   LAMBDA e : \/ IsRegularFileEntry(e)
                              \/ IsSymlinkEntry(e)
                              \/ IsWhiteoutEntry(e))
    IN [i \in 1..Len(met) |->
           [op |-> "delete_rule", src |-> PathStr(met[i].rel),
            target |-> <<>>, type |-> "DT_UNKNOWN"]]

\* main.cpp, lines 457-468 and 564-572: the partitions in turn.
RECURSIVE RemoveModuleRules(_, _, _, _)
RemoveModuleRules(a, fsys, id, p) ==
    IF p > Len(BUILTIN_PARTITIONS) THEN a
    ELSE LET module_dir == <<MODULEDIR, id, BUILTIN_PARTITIONS[p]>>
         IN RemoveModuleRules(
                IF ~RemoveRulesReturn(fsys, module_dir) THEN a
                ELSE [calls |-> a.calls \o
                                RemoveRulesCalls(fsys, id, BUILTIN_PARTITIONS[p]),
                      success_count |-> a.success_count + 1],
                fsys, id, p + 1)

\* What both commands do: the rules are removed partition by partition and,
\* when a partition reported success, the id is erased from the state's
\* hymofs_module_ids. The kernel serves delete_rule when HymoFS is available;
\* under another status the table is left as it is.
RemoveCommand(command, id) ==
    LET r == RemoveModuleRules([calls |-> <<>>, success_count |-> 0],
                               SourceTree(moduledir), id, 1)
    IN /\ kernel_calls' = kernel_calls \o r.calls
       /\ kernel_rules' = IF is_available(status)
                          THEN KernelApplyAll(kernel_rules, r.calls, 1)
                          ELSE kernel_rules
       /\ state_file' = IF r.success_count > 0
                        THEN [state_file EXCEPT
                                 !.hymofs_module_ids = RemoveId(@, id)]
                        ELSE state_file
       /\ rs' = [phase |-> "done", command |-> command, id |-> id,
                 success |-> r.success_count > 0]
       /\ pc' = "cli_done"

\* main.cpp, lines 550-588: module hot-unmount.
HotUnmount ==
    /\ pc = "done"
    /\ \E id \in Range(ModuleIds) : RemoveCommand("hot-unmount", id)
    /\ UNCHANGED <<status, ignore_protocol_mismatch, moduledir, can_use_hymofs,
                   module_list, storage, st, staging, plan, phases, ex,
                   mounts, exec_result, rr, mo, mm>>

\* main.cpp, lines 456-487: module delete.
ModuleDelete ==
    /\ pc = "done"
    /\ \E id \in Range(ModuleIds) : RemoveCommand("delete", id)
    /\ UNCHANGED <<status, ignore_protocol_mismatch, moduledir, can_use_hymofs,
                   module_list, storage, st, staging, plan, phases, ex,
                   mounts, exec_result, rr, mo, mm>>

NextUnmount == Next \/ HotUnmount \/ ModuleDelete

SpecUnmount == InitTrees /\ [][NextUnmount]_vars

\* The module the command named, when the mount run had installed HymoFS
\* rules for it and the command reported success.
UnmountedModules ==
    IF pc = "cli_done" /\ EmissionDone /\ rs.success
    THEN {m \in HymofsModules :
             /\ m.id = rs.id
             /\ \E i \in 1..Len(kernel_calls) : CallFrom(kernel_calls[i], m)}
    ELSE {}

\* C29: after a successful hot-unmount or delete of a module whose rules the
\* mount run installed, the kernel table holds no add, merge or hide rule
\* that stems from that module alone, and the state's hymofs_module_ids does
\* not list the module.
C29_NoRuleOfUnmountedModule ==
    \A m \in UnmountedModules :
        /\ ~IsListed(state_file.hymofs_module_ids, m.id)
        /\ \A r \in kernel_rules :
               CallFrom(r, m) =>
                   \E o \in HymofsModules : o.id # m.id /\ CallFrom(r, o)

\* C29, the case where it holds: the module's rules were installed, the
\* command deleted rules and none of the module is left.
C29_AllRulesDeleted ==
    /\ UnmountedModules # {}
    /\ \E i \in 1..Len(kernel_calls) : kernel_calls[i].op = "delete_rule"
    /\ \A m \in UnmountedModules, r \in kernel_rules : ~CallFrom(r, m)
    /\ \A m \in UnmountedModules : ~IsListed(state_file.hymofs_module_ids, m.id)

\* ------------------------------------------ the child mounts of a target, C30

\* The mount point lies strictly under target_root on a component boundary:
\* it starts with target_root + "/".
StrictlyUnder(mount_point, target_root) ==
    IsPrefix(target_root \o <<"/">>, mount_point)

\* C30: get_child_mounts returns exactly the mount points strictly under the
\* target on a component boundary, and the restoration visits no other mount
\* point: a mount point that only shares the string prefix, /system_ext for
\* the target /system, is neither returned nor restored.
C30_ChildMountsOnComponentBoundary ==
    mo.phase \in {"children", "returned"} =>
        /\ \A k \in 1..Len(mo.mountinfo) :
               StrictlyUnder(mo.mountinfo[k].mount_point, mo.target_root)
                   <=> \E j \in 1..Len(mo.mount_seq) :
                           mo.mount_seq[j] = mo.mountinfo[k]
        /\ \A k \in 1..Len(mo.restored) :
               StrictlyUnder(mo.restored[k].mount_point, mo.target_root)

\* C30, the case where it holds: /system_ext is not mounted, /system/etc and
\* /system/etc/hosts are, and exactly these two were returned and restored.
C30_ChildrenReturnedSiblingAbsent ==
    /\ mo.phase = "returned"
    /\ mo.result
    /\ Len(mo.mountinfo) = 5
    /\ \A k \in 1..Len(mo.mountinfo) : mo.mountinfo[k].mount_point # SYSTEM_EXT
    /\ Len(mo.mount_seq) = 2
    /\ Len(mo.restored) = 2
    /\ \A k \in 1..2 : StrictlyUnder(mo.restored[k].mount_point, mo.target_root)

====
